---- MODULE Spec2Model ----
(***************************************************************************)
(* A model of the minja template engine (src/include/minja/minja.hpp):     *)
(* the dynamic Value type with its shared Array / Object payloads, the     *)
(* Context scope chain, expression evaluation, and the tree-walking        *)
(* renderer (SequenceExpr, ConditionalBlockExpr, ForExpr, SetVarExpr,      *)
(* SetBlockExpr, MacroDeclExpr, LoopControlExpr, CallExpr).                *)
(*                                                                         *)
(* The renderer is a recursive C++ tree walk; here it is a stack machine:  *)
(* `stack` holds one frame per active render() call, `mode` says whether   *)
(* the top frame is being entered ("call") or has just got a child's       *)
(* LoopControlType back ("ret"), and `rv` is that returned value.          *)
(* Strings are sequences of one-character strings.                         *)
(*                                                                         *)
(* The parser (Parser::tokenize and the expression parser under it) is a   *)
(* second stack machine on `src`, `it`, `pstack`; in Spec the templates    *)
(* are given as the ASTs Parser::parseTemplate builds and the parser is    *)
(* idle, in SpecParse the parser runs and the renderer is idle, and in     *)
(* SpecTemplate Parser::parseTemplate assembles a token list and the       *)
(* renderer renders what it built.                                         *)
(***************************************************************************)
EXTENDS Integers, Sequences, FiniteSets, TLC

VARIABLES heap,      \* shared_ptr payloads: Seq of array / object cells
          contexts,  \* every Context made so far: [values, parent]
          stack,     \* active render() calls, innermost last
          outs,      \* the std::ostringstream sinks; outs[1] is the caller's
          mode,      \* "call" | "ret" | "done"
          rv,        \* LoopControlType returned by the render() that just ended
          tmpl,      \* index of the template being rendered
          input,     \* the data the caller put in the context Value
          bindings,  \* ref of the caller's context Value (an Object)
          run,       \* 1 for the first render of the AST, 2 for the second
          result1,   \* what the first render returned
          src,       \* Parser: the template source, one character per element
          it,        \* Parser::it, as a 1-based position in src (end = Len(src) + 1)
          pstack,    \* active Parser member-function calls, innermost last
          pret,      \* what the parse function that just returned gave: "expr" | "if" | "null"
          pmode,     \* "run" while Parser::tokenize is running, "tokens" when
                     \* the tokens are there to assemble, "done" after
          tokens,    \* Parser: tokens_list, the TemplateTokens
          options    \* Parser::options

renderer == <<heap, contexts, stack, outs, mode, rv, tmpl, input, bindings, run, result1>>
parser == <<src, it, pstack, pret, pmode, tokens, options>>
vars == <<heap, contexts, stack, outs, mode, rv, tmpl, input, bindings, run, result1,
          src, it, pstack, pret, pmode, tokens, options>>

(***************************************************************************)
(* Bounds of the model.                                                    *)
(***************************************************************************)
MaxLen == 2      \* longest context array xs
MaxOuter == 2    \* longest outer array ys
MaxPos == 2      \* most positional arguments spread into a macro call
MaxInt == 2      \* the Integers n and j of the context are in -MaxInt..MaxInt
MaxDoc == 2      \* most elements of an Array or Object of doc

(***************************************************************************)
(* Value (minja.hpp 171-672).  A Value is a primitive json, or a handle    *)
(* (shared_ptr) to an array or object cell of the heap, or a callable.     *)
(***************************************************************************)
NullV == [t |-> "null"]
BoolV(b) == [t |-> "bool", b |-> b]
IntV(i) == [t |-> "int", i |-> i]
StrV(s) == [t |-> "str", s |-> s]
\* A Float; the doubles of the model are the integral ones.
FloatV(d) == [t |-> "float", d |-> d]
ArrV(r) == [t |-> "array", ref |-> r]
ObjV(r) == [t |-> "object", ref |-> r]
\* The three kinds of std::function held in callable_: a built-in of
\* Context::builtins, the closure MacroDeclExpr::render makes (it captures the
\* declaration and the context of definition), and a loop's cycle function.
BuiltinV(name) == [t |-> "callable", kind |-> "builtin", fn |-> name]
MacroV(decl, ctx) == [t |-> "callable", kind |-> "macro", decl |-> decl, ctx |-> ctx]
CycleV(loop) == [t |-> "callable", kind |-> "cycle", loop |-> loop]
\* loop_function_val of the ForExpr::render call that is frame `depth`.
LoopFnV(depth) == [t |-> "callable", kind |-> "loop", depth |-> depth]

ArrayCell(items) == [kind |-> "array", items |-> items]
ObjectCell(map) == [kind |-> "object", map |-> map]
EmptyMap == [k \in {} |-> NullV]

is_null(v) == v.t = "null"
is_array(v) == v.t = "array"
is_object(v) == v.t = "object"
is_string(v) == v.t = "str"
is_callable(v) == v.t = "callable"
is_number_integer(v) == v.t = "int"
is_number_float(v) == v.t = "float"
is_number(v) == is_number_integer(v) \/ is_number_float(v)

\* What an uninitialised double may hold.
Junk == {0, 1}

\* Value::get<double> 599-603, json::get(double&) 130-132: mDouble.
\* json(int64_t) 63-66 sets mInt and mType only, and the copy constructor
\* 79-85 copies the members as they are: the mDouble of an Integer is never
\* written.  What a read of it yields is drawn from Junk, per run and per
\* Integer (input.junk).
mDouble(v) == IF is_number_float(v) THEN v.d ELSE input.junk[v.i]

\* Value::get<int64_t>, json::get(int64_t&) 120-122, of an Integer.
mInt(v) == v.i
is_iterable(v) == is_array(v) \/ is_object(v) \/ is_string(v)

\* std::to_string(int64_t): the decimal digits, most significant first.
Digit(d) == <<"0", "1", "2", "3", "4", "5", "6", "7", "8", "9">>[d + 1]

RECURSIVE ToDecimal(_)
ToDecimal(n) ==
    IF n < 0 THEN <<"-">> \o ToDecimal(-n)
    ELSE IF n < 10 THEN <<Digit(n)>>
    ELSE ToDecimal(n \div 10) \o <<Digit(n % 10)>>

\* json::dump of primitive_: the key an Object is searched with.  A Value
\* that is not a primitive has a null primitive_.
JsonDump(v) ==
    CASE v.t = "str" -> v.s
      [] v.t = "int" -> ToDecimal(v.i)
      [] v.t = "float" -> ToDecimal(v.d) \o <<".", "0", "0", "0", "0", "0", "0">>
      [] v.t = "bool" -> IF v.b THEN <<"T", "r", "u", "e">> ELSE <<"F", "a", "l", "s", "e">>
      [] OTHER -> <<"n", "u", "l", "l">>

\* Value::size.
ValueSize(v, h) ==
    CASE v.t = "object" -> Cardinality(DOMAIN h[v.ref].map)
      [] v.t = "array" -> Len(h[v.ref].items)
      [] v.t = "str" -> Len(v.s)
      [] OTHER -> 0

\* Value::to_bool 443-450.
to_bool(v, h) ==
    CASE v.t = "null" -> FALSE
      [] v.t = "bool" -> v.b
      [] is_number(v) -> mDouble(v) # 0
      [] v.t = "str" -> v.s # <<>>
      [] v.t = "array" -> h[v.ref].items # <<>>
      [] v.t = "object" -> TRUE
      [] v.t = "callable" -> TRUE

\* Value::primitive_: the json a Value holds; that of an Array, an Object or
\* a callable is the default json(), null.
primitive_(v) == IF v.t \in {"array", "object", "callable"} THEN NullV ELSE v

\* Value::operator== 486-507: a callable is equal only to itself; an Array to
\* an Array of the same size whose elements are all truthy and pairwise
\* equal; an Object likewise, key by key; anything else by json::operator==
\* 86-103 on primitive_ (same type and same member).
RECURSIVE ValueEq(_, _, _)
ValueEq(a, b, h) ==
    IF (is_callable(a) \/ is_callable(b)) /\ a # b THEN FALSE
    ELSE IF is_array(a)
    THEN /\ is_array(b)
         /\ Len(h[a.ref].items) = Len(h[b.ref].items)
         /\ \A i \in 1..Len(h[a.ref].items) :
                /\ to_bool(h[a.ref].items[i], h)
                /\ to_bool(h[b.ref].items[i], h)
                /\ ValueEq(h[a.ref].items[i], h[b.ref].items[i], h)
    ELSE IF is_object(a)
    THEN /\ is_object(b)
         /\ Cardinality(DOMAIN h[a.ref].map) = Cardinality(DOMAIN h[b.ref].map)
         /\ \A key \in DOMAIN h[a.ref].map :
                /\ to_bool(h[a.ref].map[key], h)
                /\ key \in DOMAIN h[b.ref].map
                /\ ValueEq(h[a.ref].map[key], h[b.ref].map[key], h)
    ELSE primitive_(a) = primitive_(b)

\* Value::contains(const Value &) 527-550, the `in` operator: an Array holds
\* a value equal (operator==) to one of its items, an Object a String that is
\* one of its keys, a String a String that occurs in it.
contains(container, value, h) ==
    CASE is_array(container) ->
           \E i \in 1..Len(h[container.ref].items) :
               ValueEq(h[container.ref].items[i], value, h)
      [] is_object(container) ->
           is_string(value) /\ value.s \in DOMAIN h[container.ref].map
      [] is_string(container) ->
           /\ is_string(value)
           /\ \E i \in 0..(Len(container.s) - Len(value.s)) :
                  SubSeq(container.s, i + 1, i + Len(value.s)) = value.s
      [] OTHER -> FALSE

\* Value::operator< 462-471 and operator> 474-483 (StrLess is defined with
\* the keys of an Object below; no template compares strings).
ValueLess(a, b) ==
    IF is_null(a) THEN FALSE
    ELSE IF is_number(a) /\ is_number(b) THEN mDouble(a) < mDouble(b)
    ELSE FALSE

ValueGreater(a, b) ==
    IF is_null(a) THEN FALSE
    ELSE IF is_number(a) /\ is_number(b) THEN mDouble(a) > mDouble(b)
    ELSE FALSE

\* The % of C++ on int64_t: the remainder has the sign of the dividend.
Rem(a, b) ==
    LET abs(x) == IF x < 0 THEN -x ELSE x
    IN IF a < 0 THEN -(abs(a) % abs(b)) ELSE abs(a) % abs(b)

\* The / of C++ on two doubles and std::floor of it; the doubles of Junk
\* divide exactly.
DoubleDiv(x, y) == x \div y

\* Value::operator+ 625-639, operator- 640-645, operator* 646-663 on numbers.
ValueAdd(l, r) ==
    IF is_number_integer(l) /\ is_number_integer(r) THEN IntV(mInt(l) + mInt(r))
    ELSE FloatV(mDouble(l) + mDouble(r))

ValueSub(l, r) ==
    IF is_number_integer(l) /\ is_number_integer(r) THEN IntV(mInt(l) - mInt(r))
    ELSE FloatV(mDouble(l) - mDouble(r))

ValueMul(l, r) ==
    IF is_number_integer(l) /\ is_number_integer(r) THEN IntV(mInt(l) * mInt(r))
    ELSE FloatV(mDouble(l) * mDouble(r))

\* Value::operator/ 664-667.
ValueDiv(l, r) ==
    IF mDouble(r) = 0 THEN NullV ELSE FloatV(DoubleDiv(mDouble(l), mDouble(r)))

\* Value::operator% 668-671.
ValueMod(l, r) ==
    IF mInt(r) = 0 THEN NullV ELSE IntV(Rem(mInt(l), mInt(r)))

\* BinaryOpExpr::do_evaluate 1379-1382 (Op::DivDiv).
ValueDivDiv(l, r) ==
    IF mDouble(r) = 0 THEN NullV ELSE FloatV(DoubleDiv(mDouble(l), mDouble(r)))

\* Value::set: (*object_)[key] = value.
MapSet(map, key, v) == [k \in DOMAIN map \cup {key} |-> IF k = key THEN v ELSE map[k]]

ValueSet(h, r, key, v) == [h EXCEPT ![r].map = MapSet(@, key, v)]

\* Value::contains(const std::string &) on an object.
ValueContains(h, r, key) == key \in DOMAIN h[r].map

\* Value::get(const Value & key): subscript / attribute read.
ValueGet(target, key, h) ==
    CASE target.t = "array" ->
           IF key.t # "int" THEN NullV
           ELSE LET n == Len(h[target.ref].items)
                    idx == IF key.i < 0 THEN n + key.i ELSE key.i
                IN h[target.ref].items[idx + 1]
      [] target.t = "object" ->
           IF JsonDump(key) \in DOMAIN h[target.ref].map
           THEN h[target.ref].map[JsonDump(key)] ELSE NullV
      [] OTHER -> NullV

(***************************************************************************)
(* Context (minja.hpp 769-820): a scope is an Object of bindings plus a    *)
(* parent pointer.  Context 0 is "no parent".                              *)
(***************************************************************************)
RECURSIVE ContextContains(_, _, _, _)
ContextContains(cs, h, c, key) ==
    IF ValueContains(h, cs[c].values, key) THEN TRUE
    ELSE IF cs[c].parent # 0 THEN ContextContains(cs, h, cs[c].parent, key)
    ELSE FALSE

RECURSIVE ContextGet(_, _, _, _)
ContextGet(cs, h, c, key) ==
    IF ValueContains(h, cs[c].values, key) THEN h[cs[c].values].map[key]
    ELSE IF cs[c].parent # 0 THEN ContextGet(cs, h, cs[c].parent, key)
    ELSE NullV

\* A faulty Context::set: it writes into the nearest scope that already binds
\* the key (Owner), as an assignment to an enclosing variable would.
RECURSIVE Owner(_, _, _, _)
Owner(cs, h, c, key) ==
    IF ValueContains(h, cs[c].values, key) \/ cs[c].parent = 0 THEN c
    ELSE Owner(cs, h, cs[c].parent, key)

ContextSet_owner(cs, h, c, key, v) ==
    ValueSet(h, cs[IF ContextContains(cs, h, c, key) THEN Owner(cs, h, c, key) ELSE c].values,
             key, v)

\* Context::set writes into this scope's own values_.
ContextSet(cs, h, c, key, v) == ValueSet(h, cs[c].values, key, v)

(***************************************************************************)
(* Names.                                                                  *)
(***************************************************************************)
n_loop == <<"l", "o", "o", "p">>
n_length == <<"l", "e", "n", "g", "t", "h">>
n_namespace == <<"n", "a", "m", "e", "s", "p", "a", "c", "e">>
n_index == <<"i", "n", "d", "e", "x">>
n_index0 == <<"i", "n", "d", "e", "x", "0">>
n_revindex == <<"r", "e", "v", "i", "n", "d", "e", "x">>
n_revindex0 == <<"r", "e", "v", "i", "n", "d", "e", "x", "0">>
n_first == <<"f", "i", "r", "s", "t">>
n_last == <<"l", "a", "s", "t">>
n_previtem == <<"p", "r", "e", "v", "i", "t", "e", "m">>
n_nextitem == <<"n", "e", "x", "t", "i", "t", "e", "m">>
n_append == <<"a", "p", "p", "e", "n", "d">>
n_pop == <<"p", "o", "p">>
n_insert == <<"i", "n", "s", "e", "r", "t">>
n_items == <<"i", "t", "e", "m", "s">>
n_tojson == <<"t", "o", "j", "s", "o", "n">>
n_doc == <<"d", "o", "c">>
n_string == <<"s", "t", "r", "i", "n", "g">>
n_self == <<"s", "e", "l", "f">>

\* std::map iterates its keys in byte order; Alphabet lists the characters
\* used in keys in that order.
Alphabet == <<"0", "1", "2", "D", "K", "L", "P", "Q", "_", "a", "b", "c", "d", "e", "f", "g",
              "h", "i", "j", "k", "l", "m", "n", "o", "p", "q", "r", "s", "t", "u", "v", "w",
              "x", "y", "z">>

CharCode(c) == CHOOSE i \in 1..Len(Alphabet) : Alphabet[i] = c

RECURSIVE StrLess(_, _)
StrLess(a, b) ==
    IF b = <<>> THEN FALSE
    ELSE IF a = <<>> THEN TRUE
    ELSE IF a[1] = b[1] THEN StrLess(Tail(a), Tail(b))
    ELSE CharCode(a[1]) < CharCode(b[1])

RECURSIVE SortedKeys(_)
SortedKeys(ks) ==
    IF ks = {} THEN <<>>
    ELSE LET m == CHOOSE k \in ks : \A o \in ks \ {k} : StrLess(k, o)
         IN <<m>> \o SortedKeys(ks \ {m})

n_cycle == <<"c", "y", "c", "l", "e">>

\* What stands for the process dying in the middle of a write.
Fault == "fault"

\* Value::dump_string 190-208, the loop: the characters of s from the second
\* to the last but one, with \" written as ".  (string_quote cannot occur
\* in s here: an s that holds one is written raw.)
RECURSIVE Unquoted(_, _)
Unquoted(s, i) ==
    IF i >= Len(s) THEN <<>>
    ELSE IF s[i] = "\\" /\ s[i + 1] = "\""
         THEN <<"\"">> \o Unquoted(s, i + 2)
    ELSE <<s[i]>> \o Unquoted(s, i + 1)

\* Value::dump_string 190-208.  For an empty s, s.size() - 1 wraps and the
\* loop reads past the end of s: input.oob is what that read does in this
\* run.
dump_string(s, string_quote) ==
    IF string_quote = "\"" \/ \E i \in 1..Len(s) : s[i] = "'" THEN s
    ELSE <<string_quote>> \o (IF s = <<>> THEN input.oob ELSE Unquoted(s, 2))
                         \o <<string_quote>>

\* print_sub_sep 217-221 with indent < 0.
RECURSIVE JoinSep(_)
JoinSep(texts) ==
    IF texts = <<>> THEN <<>>
    ELSE IF Len(texts) = 1 THEN texts[1]
    ELSE texts[1] \o <<",", " ">> \o JoinSep(Tail(texts))

\* Value::dump 209-254 with indent -1.  A callable has an (empty) object_, so
\* it is written as an Object.
RECURSIVE dump(_, _, _)
dump(v, h, to_json) ==
    CASE v.t = "null" -> <<"n", "u", "l", "l">>
      [] v.t = "array" ->
           <<"[">> \o JoinSep([i \in 1..Len(h[v.ref].items) |->
                                  dump(h[v.ref].items[i], h, to_json)]) \o <<"]">>
      [] v.t = "object" ->
           LET ks == SortedKeys(DOMAIN h[v.ref].map)
           IN <<"{">> \o JoinSep([i \in 1..Len(ks) |->
                                     dump_string(ks[i], IF to_json THEN "\"" ELSE "'")
                                         \o <<":", " ">>
                                         \o dump(h[v.ref].map[ks[i]], h, to_json)])
                     \o <<"}">>
      [] v.t = "callable" -> <<"{", "}">>
      [] v.t = "bool" /\ ~to_json ->
           IF v.b THEN <<"T", "r", "u", "e">> ELSE <<"F", "a", "l", "s", "e">>
      [] v.t = "str" /\ ~to_json -> dump_string(v.s, "'")
      [] OTHER -> JsonDump(v)

\* Value::to_str 617-624.
to_str(v, h) ==
    CASE v.t = "str" -> v.s
      [] v.t = "int" -> ToDecimal(v.i)
      [] v.t = "float" -> ToDecimal(v.d) \o <<".", "0", "0", "0", "0", "0", "0">>
      [] v.t = "bool" -> IF v.b THEN <<"T", "r", "u", "e">> ELSE <<"F", "a", "l", "s", "e">>
      [] v.t = "null" -> <<>>
      [] OTHER -> dump(v, h, FALSE)

\* Value::for_each: the items a callback is called with, in order.
CharValues(s) == [i \in 1..Len(s) |-> StrV(<<s[i]>>)]

\* A faulty for_each: it stops one item early, and visits arrays only.
for_each_short(v, h) ==
    CASE v.t = "array" -> SubSeq(h[v.ref].items, 1, Len(h[v.ref].items) - 1)
      [] OTHER -> <<>>

for_each(v, h) ==
    CASE v.t = "array" -> h[v.ref].items
      [] v.t = "object" -> LET ks == SortedKeys(DOMAIN h[v.ref].map)
                           IN [i \in 1..Len(ks) |-> StrV(ks[i])]
      [] v.t = "str" -> CharValues(v.s)
      [] OTHER -> <<>>

(***************************************************************************)
(* Expressions (minja.hpp 871-1724) as records; `k` is the node class.     *)
(***************************************************************************)
Lit(v) == [k |-> "Literal", v |-> v]
Var(name) == [k |-> "Variable", name |-> name]
ArrayE(elements) == [k |-> "Array", elements |-> elements]
DictE(elements) == [k |-> "Dict", elements |-> elements]
Subscript(base, index) == [k |-> "Subscript", base |-> base, index |-> index]
Attr(base, name) == Subscript(base, Lit(StrV(name)))
\* SliceExpr 1145-1161: start, end and step are expressions or None.
Slice(start, end_expr, step) ==
    [k |-> "Slice", start |-> start, end |-> end_expr, step |-> step]
Binary(op, left, right) == [k |-> "Binary", op |-> op, left |-> left, right |-> right]
Expansion(expr) == [k |-> "Expansion", expr |-> expr]
ExpansionDict(expr) == [k |-> "ExpansionDict", expr |-> expr]
MethodCall(object, method, args) ==
    [k |-> "MethodCall", object |-> object, method |-> method, args |-> args]
Call(object, args) == [k |-> "Call", object |-> object, args |-> args]
Filter(parts) == [k |-> "Filter", parts |-> parts]

EvalResult(v, h) == [v |-> v, h |-> h]

\* A faulty push_back: it appends to a copy, so the shared array is unchanged.
push_back_copy(h, ref, v) == h

\* Value::push_back 330-334, Value::insert 325-329 and the two erasures of
\* Value::pop 335-367 on the array cell `ref`.
push_back(h, ref, v) == [h EXCEPT ![ref].items = Append(@, v)]
insert(h, ref, index, v) ==
    [h EXCEPT ![ref].items = SubSeq(@, 1, index) \o <<v>> \o SubSeq(@, index + 1, Len(@))]
pop_back(h, ref) == [h EXCEPT ![ref].items = SubSeq(@, 1, Len(@) - 1)]
erase(h, ref, index) ==
    [h EXCEPT ![ref].items = SubSeq(@, 1, index) \o SubSeq(@, index + 2, Len(@))]

\* MethodCallExpr::do_evaluate 1524-1538: the methods of an array.
PopIndex(items, i) == IF i < 0 THEN Len(items) + i ELSE i

ArrayMethod(obj, method, args, h) ==
    CASE method = n_append -> EvalResult(NullV, push_back(h, obj.ref, args[1]))
      [] method = n_pop /\ args = <<>> ->
           EvalResult(h[obj.ref].items[Len(h[obj.ref].items)], pop_back(h, obj.ref))
      [] method = n_pop /\ args # <<>> ->
           EvalResult(h[obj.ref].items[PopIndex(h[obj.ref].items, args[1].i) + 1],
                      erase(h, obj.ref, PopIndex(h[obj.ref].items, args[1].i)))
      [] method = n_insert -> EvalResult(NullV, insert(h, obj.ref, args[1].i, args[2]))

RECURSIVE MapSetAll(_, _)
MapSetAll(map, pairs) ==
    IF pairs = <<>> THEN map
    ELSE MapSetAll(MapSet(map, Head(pairs)[1], Head(pairs)[2]), Tail(pairs))

\* The built-in callables of Context::builtins that the templates reach.
\* simple_function binds the first positional argument of length to "items".
CallBuiltin(fn, a, h) ==
    CASE fn = n_length -> EvalResult(IntV(ValueSize(a.args[1], h)), h)
      [] fn = n_tojson -> EvalResult(StrV(dump(a.args[1], h, TRUE)), h)
      [] fn = n_string -> EvalResult(StrV(to_str(a.args[1], h)), h)
      [] fn = n_namespace ->
           EvalResult(ObjV(Len(h) + 1), Append(h, ObjectCell(MapSetAll(EmptyMap, a.kwargs))))

\* A faulty cycle: the counter stays where it is.
CycleCall_stuck(fn, args, h) ==
    EvalResult(args[(h[fn.loop].cycle_idx_val % Len(args)) + 1], h)

\* ForExpr::render 1857-1862, the cycle closure: args[cycle_idx_val % size],
\* then cycle_idx_val++.
CycleCall(fn, args, h) ==
    EvalResult(args[(h[fn.loop].cycle_idx_val % Len(args)) + 1],
               [h EXCEPT ![fn.loop].cycle_idx_val = @ + 1])

\* Value::call on a callable of these templates.
CallValue(fn, a, h) ==
    IF fn.kind = "cycle" THEN CycleCall(fn, a.args, h) ELSE CallBuiltin(fn.fn, a, h)

\* The (key, value) pairs a **object argument contributes, in for_each order.
KeywordPairs(v, ks, h) == [i \in 1..Len(ks) |-> <<ks[i].s, ValueGet(v, ks[i], h)>>]

\* MethodCallExpr::do_evaluate 1540-1546, items(): a new Array of [key, value]
\* Arrays, one for each key in keys() order.
ObjectItems(obj, h) ==
    LET ks == SortedKeys(DOMAIN h[obj.ref].map)
    IN EvalResult(ArrV(Len(h) + 1),
                  Append(h, ArrayCell([i \in 1..Len(ks) |-> ArrV(Len(h) + 1 + i)]))
                      \o [i \in 1..Len(ks) |->
                             ArrayCell(<<StrV(ks[i]), h[obj.ref].map[ks[i]]>>)])

NoArgs == [args |-> <<>>, kwargs |-> <<>>]

\* SubscriptExpr::do_evaluate 1185-1195: a bound of the slice as an index: the
\* default for an omitted bound, len added to a negative one.  (For the
\* default of a reversed slice the code computes size() - 1 in size_t, which
\* wraps for an empty target, and converts to int64_t, which brings -1
\* back.)
SliceBound_no_wrap(v, len, default) == IF is_null(v) THEN default ELSE mInt(v)

SliceBound(v, len, default) ==
    IF is_null(v) THEN default
    ELSE IF is_number(v) /\ mInt(v) < 0 THEN len + mInt(v) ELSE mInt(v)

\* 1202-1208, 1220-1226: the indices (from 0) a reversed slice takes: from i
\* down to above end_idx, those below len; the loop ends below 0.
RECURSIVE ReverseIndices(_, _, _)
ReverseIndices(i, end_idx, len) ==
    IF i <= end_idx THEN <<>>
    ELSE IF i >= 0 /\ i < len THEN <<i>> \o ReverseIndices(i - 1, end_idx, len)
    ELSE IF i < 0 THEN <<>>
    ELSE ReverseIndices(i - 1, end_idx, len)

\* 1210-1213, 1228-1232: the indices a forward slice takes, its bounds
\* clamped to 0..len.
ClampIndex(i, len) ==
    LET min == IF i < len THEN i ELSE len
    IN IF min < 0 THEN 0 ELSE min

ForwardIndices(start_idx, end_idx, len) ==
    [i \in 1..(ClampIndex(end_idx, len) - ClampIndex(start_idx, len)) |->
        ClampIndex(start_idx, len) + i - 1]

\* 1173-1195: reverse is a step of -1.
SliceIndices(len, start, end_val, step) ==
    IF ~is_null(step) /\ is_number(step) /\ mInt(step) = -1
    THEN ReverseIndices(SliceBound(start, len, len - 1), SliceBound(end_val, len, -1), len)
    ELSE ForwardIndices(SliceBound(start, len, 0), SliceBound(end_val, len, len), len)

\* 1199-1238: the characters of a String or the items of an Array at the
\* indices ix, as a new String or Array; null for any other target.
SliceValue(target, ix, h) ==
    CASE is_string(target) ->
           EvalResult(StrV([i \in 1..Len(ix) |-> target.s[ix[i] + 1]]), h)
      [] is_array(target) ->
           EvalResult(ArrV(Len(h) + 1),
                      Append(h, ArrayCell([i \in 1..Len(ix) |-> h[target.ref].items[ix[i] + 1]])))
      [] OTHER -> EvalResult(NullV, h)

RECURSIVE Eval(_, _, _, _)
RECURSIVE EvalOptional(_, _, _, _)
RECURSIVE EvalArgs(_, _, _, _, _)
RECURSIVE EvalElements(_, _, _, _, _)
RECURSIVE EvalPairs(_, _, _, _, _)
RECURSIVE EvalFilters(_, _, _, _, _)

\* ArgumentsExpression::evaluate 1417-1460: left to right, spreading *array
\* and **object arguments.  `acc` is the ArgumentsValue built so far.
EvalArgs(es, acc, c, cs, h) ==
    IF es = <<>> THEN [args |-> acc.args, kwargs |-> acc.kwargs, h |-> h]
    ELSE LET Add(r) ==
                 CASE Head(es).k = "Expansion" ->
                        IF is_array(r.v) THEN [acc EXCEPT !.args = @ \o for_each(r.v, r.h)]
                        ELSE acc
                   [] Head(es).k = "ExpansionDict" ->
                        IF is_object(r.v)
                        THEN [acc EXCEPT !.kwargs = @ \o KeywordPairs(r.v, for_each(r.v, r.h), r.h)]
                        ELSE acc
                   [] OTHER -> [acc EXCEPT !.args = Append(@, r.v)]
             Step(r) == EvalArgs(Tail(es), Add(r), c, cs, r.h)
         IN Step(Eval(IF Head(es).k \in {"Expansion", "ExpansionDict"}
                      THEN Head(es).expr ELSE Head(es), c, cs, h))

\* ArrayExpr::do_evaluate 1107-1114: push_back each element onto the new array.
EvalElements(es, ref, c, cs, h) ==
    IF es = <<>> THEN h
    ELSE LET Step(r) == EvalElements(Tail(es), ref, c, cs, push_back(r.h, ref, r.v))
         IN Step(Eval(Head(es), c, cs, h))

\* DictExpr::do_evaluate 1127-1139: set(key.to_str(), value) for each pair.
EvalPairs(ps, ref, c, cs, h) ==
    IF ps = <<>> THEN h
    ELSE LET WithValue(kr, vr) ==
                 EvalPairs(Tail(ps), ref, c, cs, ValueSet(vr.h, ref, to_str(kr.v, vr.h), vr.v))
             WithKey(kr) == WithValue(kr, Eval(Head(ps)[2], c, cs, kr.h))
         IN WithKey(Eval(Head(ps)[1], c, cs, h))

\* FilterExpr::do_evaluate 1680-1706, parts[1..]: each filter is called with
\* the current value as its first positional argument.
EvalFilters(parts, cur, c, cs, h) ==
    IF parts = <<>> THEN EvalResult(cur, h)
    ELSE LET Continue(r) == EvalFilters(Tail(parts), r.v, c, cs, r.h)
             Apply(fr, a) ==
                 Continue(CallBuiltin(fr.v.fn, [a EXCEPT !.args = <<cur>> \o @], a.h))
             WithFilter(fr) ==
                 IF ~is_callable(fr.v) THEN EvalResult(NullV, fr.h)
                 ELSE Apply(fr, IF Head(parts).k = "Call"
                                THEN EvalArgs(Head(parts).args, NoArgs, c, cs, fr.h)
                                ELSE [args |-> <<>>, kwargs |-> <<>>, h |-> fr.h])
         IN WithFilter(Eval(IF Head(parts).k = "Call" THEN Head(parts).object
                            ELSE Head(parts), c, cs, h))

\* slice->start ? slice->start->evaluate(context) : Value() (1174-1182).
EvalOptional(e, c, cs, h) == IF e.k = "None" THEN EvalResult(NullV, h) ELSE Eval(e, c, cs, h)

\* Expression::evaluate in Context c; the heap is threaded through because
\* literals allocate and methods mutate.
Eval(e, c, cs, h) ==
    CASE e.k = "Literal" -> EvalResult(e.v, h)
      [] e.k = "Variable" ->
           \* VariableExpr::do_evaluate 877-882
           EvalResult(IF ContextContains(cs, h, c, e.name)
                      THEN ContextGet(cs, h, c, e.name) ELSE NullV, h)
      [] e.k = "Array" ->
           EvalResult(ArrV(Len(h) + 1),
                      EvalElements(e.elements, Len(h) + 1, c, cs, Append(h, ArrayCell(<<>>))))
      [] e.k = "Dict" ->
           EvalResult(ObjV(Len(h) + 1),
                      EvalPairs(e.elements, Len(h) + 1, c, cs, Append(h, ObjectCell(EmptyMap))))
      [] e.k = "Subscript" ->
           \* SubscriptExpr::do_evaluate 1169-1252
           IF e.index.k = "Slice"
           THEN LET WithEnd(t, step, start, end_val) ==
                        SliceValue(t.v, SliceIndices(ValueSize(t.v, end_val.h), start.v,
                                                     end_val.v, step.v), end_val.h)
                    WithStart(t, step, start) ==
                        WithEnd(t, step, start, EvalOptional(e.index.end, c, cs, start.h))
                    WithStep(t, step) ==
                        WithStart(t, step, EvalOptional(e.index.start, c, cs, step.h))
                    WithBase(t) == WithStep(t, EvalOptional(e.index.step, c, cs, t.h))
                IN WithBase(Eval(e.base, c, cs, h))
           ELSE LET WithIndex(t, i) ==
                        EvalResult(IF is_null(t.v) THEN NullV ELSE ValueGet(t.v, i.v, i.h), i.h)
                    WithTarget(t) == WithIndex(t, Eval(e.index, c, cs, t.h))
                IN WithTarget(Eval(e.base, c, cs, h))
      [] e.k = "Binary" ->
           \* BinaryOpExpr::do_evaluate 1318-1398
           LET Compare(l, r) ==
                   EvalResult(CASE e.op = "==" -> BoolV(ValueEq(l.v, r.v, r.h))
                                [] e.op = "!=" -> BoolV(~ValueEq(l.v, r.v, r.h))
                                [] e.op = "in" -> BoolV(contains(r.v, l.v, r.h))
                                [] e.op = "not in" -> BoolV(~contains(r.v, l.v, r.h))
                                [] e.op = "<" -> BoolV(ValueLess(l.v, r.v))
                                [] e.op = ">" -> BoolV(ValueGreater(l.v, r.v))
                                [] e.op = "<=" -> BoolV(~ValueGreater(l.v, r.v))
                                [] e.op = ">=" -> BoolV(~ValueLess(l.v, r.v))
                                [] e.op = "~" -> StrV(to_str(l.v, r.h) \o to_str(r.v, r.h))
                                [] e.op = "+" -> ValueAdd(l.v, r.v)
                                [] e.op = "-" -> ValueSub(l.v, r.v)
                                [] e.op = "*" -> ValueMul(l.v, r.v)
                                [] e.op = "/" -> ValueDiv(l.v, r.v)
                                [] e.op = "//" -> ValueDivDiv(l.v, r.v)
                                [] e.op = "%" -> ValueMod(l.v, r.v), r.h)
               WithLeft(l) ==
                   IF e.op = "and" /\ ~to_bool(l.v, l.h) THEN l
                   ELSE IF e.op = "or" /\ to_bool(l.v, l.h) THEN l
                   ELSE IF e.op \in {"and", "or"} THEN Eval(e.right, c, cs, l.h)
                   ELSE Compare(l, Eval(e.right, c, cs, l.h))
           IN WithLeft(Eval(e.left, c, cs, h))
      [] e.k = "MethodCall" ->
           \* MethodCallExpr::do_evaluate 1514-1538
           LET Apply(o, a) ==
                   IF is_null(o.v) THEN EvalResult(NullV, a.h)
                   ELSE IF is_object(o.v) /\ e.method = n_items THEN ObjectItems(o.v, a.h)
                   ELSE IF is_object(o.v)
                        \* 1563-1568: a callable held by the object
                        THEN IF ValueContains(a.h, o.v.ref, e.method)
                             THEN CallValue(a.h[o.v.ref].map[e.method], a, a.h)
                             ELSE EvalResult(NullV, a.h)
                   ELSE ArrayMethod(o.v, e.method, a.args, a.h)
               WithObject(o) == Apply(o, EvalArgs(e.args, NoArgs, c, cs, o.h))
           IN WithObject(Eval(e.object, c, cs, h))
      [] e.k = "Filter" ->
           LET WithFirst(first) == EvalFilters(Tail(e.parts), first.v, c, cs, first.h)
           IN WithFirst(Eval(e.parts[1], c, cs, h))
      [] e.k = "Call" ->
           \* CallExpr::do_evaluate 1644-1656
           LET Apply(o, a) == CallValue(o.v, a, a.h)
               WithCallee(o) ==
                   IF ~is_callable(o.v) THEN EvalResult(NullV, o.h)
                   ELSE Apply(o, EvalArgs(e.args, NoArgs, c, cs, o.h))
           IN WithCallee(Eval(e.object, c, cs, h))

(***************************************************************************)
(* Template nodes (minja.hpp 1726-2112).  None stands for a null           *)
(* shared_ptr<Expression>.                                                 *)
(***************************************************************************)
None == [k |-> "None"]
Text(text) == [k |-> "Text", text |-> text]
Sequence(children) == [k |-> "Sequence", children |-> children]
If(cascade) == [k |-> "If", cascade |-> cascade]
For(var_names, iterable, condition, body, else_body) ==
    [k |-> "For", var_names |-> var_names, iterable |-> iterable,
     condition |-> condition, body |-> body, else_body |-> else_body, recursive |-> FALSE]
ForRecursive(var_names, iterable, condition, body, else_body) ==
    [For(var_names, iterable, condition, body, else_body) EXCEPT !.recursive = TRUE]
SetVar(ns, var_names, value) ==
    [k |-> "SetVar", ns |-> ns, var_names |-> var_names, value |-> value]
SetBlock(name, body) == [k |-> "SetBlock", name |-> name, body |-> body]
MacroDecl(name, params, body) ==
    [k |-> "MacroDecl", name |-> name, params |-> params, body |-> body]
FilterBlock(filter_expr, body) ==
    [k |-> "FilterBlock", filter_expr |-> filter_expr, body |-> body]
LoopControl(type) == [k |-> "LoopControl", type |-> type]

\* TemplateToken 931-1003: the token classes parseTemplate is given here.
TextToken(text) == [type |-> "Text", pre_space |-> "Keep", post_space |-> "Keep", text |-> text]
ExpressionToken(pre, post, expr) ==
    [type |-> "Expression", pre_space |-> pre, post_space |-> post, expr |-> expr]
IfToken(pre, post, condition) ==
    [type |-> "If", pre_space |-> pre, post_space |-> post, condition |-> condition]
ElseToken(pre, post) == [type |-> "Else", pre_space |-> pre, post_space |-> post]
EndIfToken(pre, post) == [type |-> "EndIf", pre_space |-> pre, post_space |-> post]
EndForToken(pre, post) == [type |-> "EndFor", pre_space |-> pre, post_space |-> post]

\* Options 153-157.
NoOptions == [trim_blocks |-> FALSE, lstrip_blocks |-> FALSE, keep_trailing_newline |-> FALSE]

ExpressionKinds == {"Literal", "Variable", "Subscript", "Binary", "MethodCall", "Call", "Filter"}

\* destructuring_assign (minja.hpp 898-914): the heap after the assignment.
RECURSIVE SetAll(_, _, _, _, _)
SetAll(names, values, cs, h, c) ==
    IF names = <<>> THEN h
    ELSE SetAll(Tail(names), Tail(values), cs,
                ContextSet(cs, h, c, Head(names), Head(values)), c)

destructuring_assign(var_names, cs, h, c, item) ==
    IF Len(var_names) = 1 THEN ContextSet(cs, h, c, var_names[1], item)
    ELSE IF ~is_array(item) \/ ValueSize(item, h) # Len(var_names)
         THEN SetAll(var_names, [i \in 1..Len(var_names) |-> NullV], cs, h, c)
         ELSE SetAll(var_names, h[item.ref].items, cs, h, c)

\* Context::make(Value::object(), parent): a fresh Object and a scope on it.
ContextMake(cs, h, parent) ==
    [cs |-> Append(cs, [values |-> Len(h) + 1, parent |-> parent]),
     h |-> Append(h, ObjectCell(EmptyMap)),
     c |-> Len(cs) + 1]

\* A faulty filter: every item is kept.
FilterItems_unfiltered(node, items, kept, c, cs, h) ==
    [items |-> kept \o items, cs |-> cs, h |-> h]

\* ForExpr::render 1831-1841: each item is bound in a temporary scope and
\* kept, in filtered_items, an Array of its own, when there is no condition or
\* the condition is truthy there.
RECURSIVE FilterItems(_, _, _, _, _, _)
FilterItems(node, items, kept, c, cs, h) ==
    IF items = <<>> THEN [items |-> kept, cs |-> cs, h |-> h]
    ELSE LET Test(m, h1) ==
                 IF node.condition.k = "None" THEN EvalResult(BoolV(TRUE), h1)
                 ELSE Eval(node.condition, m.c, m.cs, h1)
             Keep(m, r) ==
                 FilterItems(node, Tail(items),
                             IF to_bool(r.v, r.h) THEN Append(kept, Head(items)) ELSE kept,
                             c, m.cs, r.h)
             WithScope(m) ==
                 Keep(m, Test(m, destructuring_assign(node.var_names, m.cs, m.h, m.c,
                                                      Head(items))))
         IN WithScope(ContextMake(cs, h, c))

\* A faulty LoopFields: revindex counts from one less (revindex = revindex0).
LoopFields_revindex(items, i) ==
    LET n == Len(items) IN
    <<  <<n_index, IntV(i + 1)>>,
        <<n_index0, IntV(i)>>,
        <<n_revindex, IntV(n - i - 1)>>,
        <<n_revindex0, IntV(n - i - 1)>>,
        <<n_first, BoolV(i = 0)>>,
        <<n_last, BoolV(i = n - 1)>>,
        <<n_previtem, IF i > 0 THEN items[i] ELSE NullV>>,
        <<n_nextitem, IF i < n - 1 THEN items[i + 2] ELSE NullV>>  >>

\* ForExpr::render 1870-1880: bind the loop variables and the fields of the
\* loop object for item i (0-based) of the filtered items.
LoopFields(items, i) ==
    LET n == Len(items) IN
    <<  <<n_index, IntV(i + 1)>>,
        <<n_index0, IntV(i)>>,
        <<n_revindex, IntV(n - i)>>,
        <<n_revindex0, IntV(n - i - 1)>>,
        <<n_first, BoolV(i = 0)>>,
        <<n_last, BoolV(i = n - 1)>>,
        <<n_previtem, IF i > 0 THEN items[i] ELSE NullV>>,
        <<n_nextitem, IF i < n - 1 THEN items[i + 2] ELSE NullV>>  >>

RECURSIVE SetFields(_, _, _)
SetFields(h, ref, fields) ==
    IF fields = <<>> THEN h
    ELSE SetFields(ValueSet(h, ref, Head(fields)[1], Head(fields)[2]), ref, Tail(fields))

\* A faulty BindItem: each item starts from a loop scope that binds `loop`
\* only, as if every iteration had a scope of its own.
BindItem_fresh(node, items, i, lctx, lobj, cs, h) ==
    SetFields(destructuring_assign(node.var_names, cs,
                                   [h EXCEPT ![cs[lctx].values].map =
                                        MapSet(EmptyMap, n_loop, ObjV(lobj))],
                                   lctx, items[i + 1]),
              lobj, LoopFields(items, i))

BindItem(node, items, i, lctx, lobj, cs, h) ==
    SetFields(destructuring_assign(node.var_names, cs, h, lctx, items[i + 1]),
              lobj, LoopFields(items, i))

\* The closure of MacroDeclExpr::render 1936-1971: bind the parameters in the
\* execution context.  `set` is param_set.
RECURSIVE BindPositional(_, _, _, _, _, _, _)
BindPositional(params, args, i, set, cs, h, exec) ==
    IF i > Len(args) \/ i > Len(params) THEN [set |-> set, h |-> h]
    ELSE BindPositional(params, args, i + 1, set \cup {i}, cs,
                        ContextSet(cs, h, exec, params[i][1], args[i]), exec)

\* named_param_positions: the last parameter of that name, 0 when none.
NamedPosition(params, name) ==
    LET ps == {i \in 1..Len(params) : params[i][1] = name}
    IN IF ps = {} THEN 0 ELSE CHOOSE i \in ps : \A j \in ps : j <= i

RECURSIVE BindKeywords(_, _, _, _, _, _)
BindKeywords(params, kwargs, set, cs, h, exec) ==
    IF kwargs = <<>> THEN [set |-> set, h |-> h]
    ELSE LET pos == NamedPosition(params, Head(kwargs)[1])
         IN IF pos = 0 \/ pos \in set
            THEN BindKeywords(params, Tail(kwargs), set, cs, h, exec)
            ELSE BindKeywords(params, Tail(kwargs), set \cup {pos}, cs,
                              ContextSet(cs, h, exec, Head(kwargs)[1], Head(kwargs)[2]), exec)

\* A faulty default binding: defaults are evaluated in the body's scope, where
\* the parameters bound so far are visible.
RECURSIVE BindDefaults_in_body_scope(_, _, _, _, _, _, _)
BindDefaults_in_body_scope(params, i, set, cs, h, exec, context_of_definition) ==
    IF i > Len(params) THEN h
    ELSE IF i \in set
    THEN BindDefaults_in_body_scope(params, i + 1, set, cs, h, exec, context_of_definition)
    ELSE LET Step(r) ==
                 BindDefaults_in_body_scope(params, i + 1, set, cs,
                                            ContextSet(cs, r.h, exec, params[i][1], r.v),
                                            exec, context_of_definition)
         IN Step(IF params[i][2].k # "None"
                 THEN Eval(params[i][2], exec, cs, h)
                 ELSE EvalResult(NullV, h))

RECURSIVE BindDefaults(_, _, _, _, _, _, _)
BindDefaults(params, i, set, cs, h, exec, context_of_definition) ==
    IF i > Len(params) THEN h
    ELSE IF i \in set THEN BindDefaults(params, i + 1, set, cs, h, exec, context_of_definition)
    ELSE LET Step(r) ==
                 BindDefaults(params, i + 1, set, cs,
                              ContextSet(cs, r.h, exec, params[i][1], r.v),
                              exec, context_of_definition)
         IN Step(IF params[i][2].k # "None"
                 THEN Eval(params[i][2], context_of_definition, cs, h)
                 ELSE EvalResult(NullV, h))

BindParameters(decl, a, cs, h, exec, context_of_definition) ==
    LET WithKeywords(k) ==
            BindDefaults(decl.params, 1, k.set, cs, k.h, exec, context_of_definition)
        WithPositional(p) ==
            WithKeywords(BindKeywords(decl.params, a.kwargs, p.set, cs, p.h, exec))
    IN WithPositional(BindPositional(decl.params, a.args, 1, {}, cs, h, exec))

\* ForExpr::render 1846, 1856: loop_vars_obj, and beside it the local
\* cycle_idx_val that the cycle closure holds by reference.
LoopCell == [kind |-> "object", map |-> EmptyMap, cycle_idx_val |-> 0]

\* ForExpr::render 1827-1880 up to the first body->render: the filtered
\* items and, when there are any, the loop scope with item 0 bound.
ForLoopBind(node, f, lobj, m) ==
    [items |-> f.items, cs |-> m.cs, lctx |-> m.c, lobj |-> lobj,
     h |-> BindItem(node, f.items, 0, m.c, lobj, m.cs,
                    SetFields(ContextSet(m.cs, m.h, m.c, n_loop, ObjV(lobj)), lobj,
                              << <<n_length, IntV(Len(f.items))>>,
                                 <<n_cycle, CycleV(lobj)>> >>))]

ForLoopScope(node, c, f) ==
    IF f.items = <<>> THEN [items |-> <<>>, cs |-> f.cs, lctx |-> 0, lobj |-> 0, h |-> f.h]
    ELSE ForLoopBind(node, f, Len(f.h) + 1,
                     ContextMake(f.cs, Append(f.h, LoopCell), c))

\* ForExpr::render 1849-1851: a recursive For binds loop.self to its loop
\* function.
LoopSelf(node, f, depth) ==
    IF node.recursive /\ f.items # <<>>
    THEN ValueSet(f.h, f.lobj, n_self, LoopFnV(depth))
    ELSE f.h

ForIterable(node, c, cs, iter) ==
    ForLoopScope(node, c,
                 FilterItems(node, IF is_iterable(iter.v) THEN for_each(iter.v, iter.h) ELSE <<>>,
                             <<>>, c, cs, iter.h))

ForSetup(node, c, cs, h) == ForIterable(node, c, cs, Eval(node.iterable, c, cs, h))

\* Parser::parseTemplate 3183-3189: what a block of children becomes.
Block(children) ==
    IF children = <<>> THEN Text(<<>>)
    ELSE IF Len(children) = 1 THEN children[1]
    ELSE Sequence(children)

(***************************************************************************)
(* The templates rendered, each with the source text it is the AST of.     *)
(***************************************************************************)
n_x == <<"x">>
n_y == <<"y">>
n_xs == <<"x", "s">>
n_ys == <<"y", "s">>
n_pos == <<"p", "o", "s">>
n_kw == <<"k", "w">>
n_n == <<"n">>
n_j == <<"j">>
n_str == <<"s", "t", "r">>
n_ns == <<"n", "s">>
N(ch) == <<ch>>
StrLit(ch) == Lit(StrV(<<ch>>))
Txt(ch) == Text(<<ch>>)

\* {% for x in xs %}.{% endfor %}
DotsTemplate == For(<<n_x>>, Var(n_xs), None, Txt("."), None)

\* {% for y in ys %}[{% for x in xs %}{{ x }}{% if x == 'b' %}-{% break %}+
\* {% elif x == 'a' %}{% continue %}{% endif %}!{% endfor %}]{% endfor %}
BreakTemplate ==
    For(<<n_y>>, Var(n_ys), None,
        Block(<<Txt("["),
                For(<<n_x>>, Var(n_xs), None,
                    Block(<<Var(n_x),
                            If(<< <<Binary("==", Var(n_x), StrLit("b")),
                                    Block(<<Txt("-"), LoopControl("Break"), Txt("+")>>)>>,
                                  <<Binary("==", Var(n_x), StrLit("a")),
                                    Block(<<LoopControl("Continue")>>)>> >>),
                            Txt("!")>>),
                    None),
                Txt("]")>>),
        None)

\* {% for y in ys %}({% for x in xs %}{{ x }}{% break %}{% else %}e{% endfor %})
\* {% endfor %}
FirstTemplate ==
    For(<<n_y>>, Var(n_ys), None,
        Block(<<Txt("("),
                For(<<n_x>>, Var(n_xs), None,
                    Block(<<Var(n_x), LoopControl("Break")>>),
                    Block(<<Txt("e")>>)),
                Txt(")")>>),
        None)

\* {% for x in xs if x != 'a' %}{{ loop.index }}{{ x }}{% endfor %}
LoopVarsTemplate ==
    For(<<n_x>>, Var(n_xs), Binary("!=", Var(n_x), StrLit("a")),
        Block(<<Attr(Var(n_loop), n_index), Var(n_x)>>), None)

\* {% set d = 'D' %}{% macro m(p, q='Q', r=d, s=p) %}{{ p }}{{ q }}{{ r }}{{ s }}
\* {% endmacro %}{% for x in xs %}{% set d = 'L' %}{% set p = 'P' %}
\* {{ m(*pos, **kw) }}{% endfor %}
MacroParams == << <<N("p"), None>>, <<N("q"), StrLit("Q")>>, <<N("r"), Var(N("d"))>>,
                  <<N("s"), Var(N("p"))>> >>

ParamsTemplate ==
    Block(<<SetVar(<<>>, <<N("d")>>, StrLit("D")),
            MacroDecl(N("m"), MacroParams,
                      Block(<<Var(N("p")), Var(N("q")), Var(N("r")), Var(N("s"))>>)),
            For(<<n_x>>, Var(n_xs), None,
                Block(<<SetVar(<<>>, <<N("d")>>, StrLit("L")),
                        SetVar(<<>>, <<N("p")>>, StrLit("P")),
                        Call(Var(N("m")), <<Expansion(Var(n_pos)), ExpansionDict(Var(n_kw))>>)>>),
                None)>>)

\* {% set ns = namespace() %}{% macro m(p) %}{% set ns.k = p %}{% set v = p %}
\* {% set w %}{{ p }}{% endset %}{% for z in xs %}{{ z }}{% endfor %}{% endmacro %}
\* {% for y in ys %}{{ m('a') }}{{ v }}{{ w }}{{ z }}{{ p }}{% endfor %}
\* {{ v }}{{ w }}{{ z }}{{ p }}{{ ns.k }}
HygieneTemplate ==
    Block(<<SetVar(<<>>, <<n_ns>>, Call(Var(n_namespace), <<>>)),
            MacroDecl(N("m"), << <<N("p"), None>> >>,
                      Block(<<SetVar(n_ns, <<N("k")>>, Var(N("p"))),
                              SetVar(<<>>, <<N("v")>>, Var(N("p"))),
                              SetBlock(N("w"), Block(<<Var(N("p"))>>)),
                              For(<<N("z")>>, Var(n_xs), None, Block(<<Var(N("z"))>>), None)>>)),
            For(<<n_y>>, Var(n_ys), None,
                Block(<<Call(Var(N("m")), <<StrLit("a")>>),
                        Var(N("v")), Var(N("w")), Var(N("z")), Var(N("p"))>>),
                None),
            Var(N("v")), Var(N("w")), Var(N("z")), Var(N("p")), Attr(Var(n_ns), N("k"))>>)

\* {% set a = [] %}{% set b = a %}{{ a.append(1) or '' }}{{ b | length }}
AliasTemplate ==
    Block(<<SetVar(<<>>, <<N("a")>>, ArrayE(<<>>)),
            SetVar(<<>>, <<N("b")>>, Var(N("a"))),
            Binary("or", MethodCall(Var(N("a")), n_append, <<Lit(IntV(1))>>), Lit(StrV(<<>>))),
            Filter(<<Var(N("b")), Var(n_length)>>)>>)

\* {% set b = xs %}{{ xs.append('c') }}{{ b | length }}{% macro f(l) %}
\* {{ l.insert(0, 'd') }}{{ l.pop() }}{% endmacro %}{{ f(b) }}{{ xs[0] }}
\* {% set o = {} %}{% set q = o %}{% set o.k = 'v' %}{{ q.k }}
\* {% set s = 'a' %}{% set t = s %}{% set s = 'b' %}{{ t }}
SharedTemplate ==
    Block(<<SetVar(<<>>, <<N("b")>>, Var(n_xs)),
            MethodCall(Var(n_xs), n_append, <<StrLit("c")>>),
            Filter(<<Var(N("b")), Var(n_length)>>),
            MacroDecl(N("f"), << <<N("l"), None>> >>,
                      Block(<<MethodCall(Var(N("l")), n_insert, <<Lit(IntV(0)), StrLit("d")>>),
                              MethodCall(Var(N("l")), n_pop, <<>>)>>)),
            Call(Var(N("f")), <<Var(N("b"))>>),
            Subscript(Var(n_xs), Lit(IntV(0))),
            SetVar(<<>>, <<N("o")>>, DictE(<<>>)),
            SetVar(<<>>, <<N("q")>>, Var(N("o"))),
            SetVar(N("o"), <<N("k")>>, StrLit("v")),
            Attr(Var(N("q")), N("k")),
            SetVar(<<>>, <<N("s")>>, StrLit("a")),
            SetVar(<<>>, <<N("t")>>, Var(N("s"))),
            SetVar(<<>>, <<N("s")>>, StrLit("b")),
            Var(N("t"))>>)

\* {% set ns = namespace() %}{% for x in xs %}{% set ns.k = x %}{% set u = x %}
\* {% endfor %}{{ ns.k }}|{{ u }}
NamespaceTemplate ==
    Block(<<SetVar(<<>>, <<n_ns>>, Call(Var(n_namespace), <<>>)),
            For(<<n_x>>, Var(n_xs), None,
                Block(<<SetVar(n_ns, <<N("k")>>, Var(n_x)),
                        SetVar(<<>>, <<N("u")>>, Var(n_x))>>),
                None),
            Attr(Var(n_ns), N("k")), Txt("|"), Var(N("u"))>>)

\* {{ v }}{% set v = 'x' %}
LeakTemplate == Block(<<Var(N("v")), SetVar(<<>>, <<N("v")>>, StrLit("x"))>>)

\* {% if n < 0 %}neg{% elif n == 0 %}zero{% else %}pos{% endif %}
SignTemplate ==
    If(<< <<Binary("<", Var(n_n), Lit(IntV(0))), Text(<<"n", "e", "g">>)>>,
          <<Binary("==", Var(n_n), Lit(IntV(0))), Text(<<"z", "e", "r", "o">>)>>,
          <<None, Text(<<"p", "o", "s">>)>> >>)

\* {% if n < j %}<{% endif %}{% if n > j %}>{% endif %}
\* {%- if n <= j %}[{% endif %}{% if n >= j %}]{% endif %}
OrderTemplate ==
    Sequence(<< If(<< <<Binary("<", Var(n_n), Var(n_j)), Txt("<")>> >>),
                If(<< <<Binary(">", Var(n_n), Var(n_j)), Txt(">")>> >>),
                If(<< <<Binary("<=", Var(n_n), Var(n_j)), Txt("[")>> >>),
                If(<< <<Binary(">=", Var(n_n), Var(n_j)), Txt("]")>> >> ) >>)

\* {{ n + j }}{{ n - j }}{{ n * j }}{{ n // j }}{{ n % j }}{{ n / j }}
ArithTemplate ==
    Sequence(<< Binary("+", Var(n_n), Var(n_j)), Binary("-", Var(n_n), Var(n_j)),
                Binary("*", Var(n_n), Var(n_j)), Binary("//", Var(n_n), Var(n_j)),
                Binary("%", Var(n_n), Var(n_j)), Binary("/", Var(n_n), Var(n_j)) >>)

\* {% set x, y = xs %}{{ x }}{{ y }}
UnpackTemplate == Sequence(<<SetVar(<<>>, <<n_x, n_y>>, Var(n_xs)), Var(n_x), Var(n_y)>>)

\* The slices x[:], x[n:], x[:j], x[n:j], x[n:j:-1], x[n::-1], x[:j:-1] and
\* x[::-1] (the step -1 is the Integer the parser makes of "-1").
SliceForms ==
    << Slice(None, None, None), Slice(Var(n_n), None, None), Slice(None, Var(n_j), None),
       Slice(Var(n_n), Var(n_j), None), Slice(Var(n_n), Var(n_j), Lit(IntV(-1))),
       Slice(Var(n_n), None, Lit(IntV(-1))), Slice(None, Var(n_j), Lit(IntV(-1))),
       Slice(None, None, Lit(IntV(-1))) >>

\* {% set y = xs[:] %}{% set y = xs[n:] %} ... {% set y = xs[::-1] %}
\* {%- set y = str[:] %} ... {% set y = str[::-1] %}
SliceTemplate ==
    Sequence([i \in 1..(2 * Len(SliceForms)) |->
                 SetVar(<<>>, <<n_y>>,
                        IF i <= Len(SliceForms) THEN Subscript(Var(n_xs), SliceForms[i])
                        ELSE Subscript(Var(n_str), SliceForms[i - Len(SliceForms)]))])

\* {{ doc | tojson }}
JsonTemplate == Filter(<<Var(n_doc), Var(n_tojson)>>)

\* {{ doc }}
ReprTemplate == Var(n_doc)

\* {% for x in doc %}{{ x }},{% endfor %}{% set y = doc.items() %}
KeysTemplate ==
    Sequence(<< For(<<n_x>>, Var(n_doc), None, Sequence(<<Var(n_x), Txt(",")>>), None),
                SetVar(<<>>, <<n_y>>, MethodCall(Var(n_doc), n_items, <<>>)) >>)

\* {% for y in ys %}{% for x in xs %}{{ loop.cycle('a', 'b') }}
\* {{- loop.cycle('a', 'b', 'c') }}{% endfor %}|{{ loop.cycle('p', 'q') }}{% endfor %}
CycleTemplate ==
    For(<<n_y>>, Var(n_ys), None,
        Sequence(<< For(<<n_x>>, Var(n_xs), None,
                        Sequence(<< MethodCall(Var(n_loop), n_cycle, <<StrLit("a"), StrLit("b")>>),
                                    MethodCall(Var(n_loop), n_cycle,
                                               <<StrLit("a"), StrLit("b"), StrLit("c")>>) >>),
                        None),
                    Txt("|"),
                    MethodCall(Var(n_loop), n_cycle, <<StrLit("p"), StrLit("q")>>) >>),
        None)

\* {% for x in xs if x != 'a' %}{% if x == 'b' %}{{ xs.append('a') }}
\* {{- xs.insert(0, 'b') }}{% else %}{% set y = xs.pop() %}{% endif %}.{% endfor %}
MutateTemplate ==
    For(<<n_x>>, Var(n_xs), Binary("!=", Var(n_x), StrLit("a")),
        Sequence(<< If(<< <<Binary("==", Var(n_x), StrLit("b")),
                            Sequence(<< MethodCall(Var(n_xs), n_append, <<StrLit("a")>>),
                                        MethodCall(Var(n_xs), n_insert,
                                                   <<Lit(IntV(0)), StrLit("b")>>) >>)>>,
                          <<None, SetVar(<<>>, <<n_y>>, MethodCall(Var(n_xs), n_pop, <<>>))>> >>),
                    Txt(".") >>),
        None)

\* {% for y in ys %}{% for x in xs %}{{ v }}{% set v = x %}{% endfor %}
\* {{- v }}{{ x }}{% endfor %}{{ v }}{{ x }}{{ y }}
ScopeTemplate ==
    Sequence(<< For(<<n_y>>, Var(n_ys), None,
                    Sequence(<< For(<<n_x>>, Var(n_xs), None,
                                    Sequence(<<Var(N("v")), SetVar(<<>>, <<N("v")>>, Var(n_x))>>),
                                    None),
                                Var(N("v")), Var(n_x) >>),
                    None),
                Var(N("v")), Var(n_x), Var(n_y) >>)

\* {% macro m(p) %}<{% if p == 'b' %}{% break %}{% endif %}>{% endmacro %}
\* {% for x in xs %}{% set s %}S{% if x == 'a' %}{% continue %}{% endif %}T
\* {% endset %}{{ s }}{% filter string %}F{% if x == 'a' %}{% break %}{% endif %}G
\* {% endfilter %}{{ m(x) }};{% endfor %}
BodiesTemplate ==
    Sequence(<< MacroDecl(N("m"), << <<N("p"), None>> >>,
                          Sequence(<< Txt("<"),
                                      If(<< <<Binary("==", Var(N("p")), StrLit("b")),
                                              LoopControl("Break")>> >>),
                                      Txt(">") >>)),
                For(<<n_x>>, Var(n_xs), None,
                    Sequence(<< SetBlock(N("s"),
                                         Sequence(<< Txt("S"),
                                                     If(<< <<Binary("==", Var(n_x), StrLit("a")),
                                                             LoopControl("Continue")>> >>),
                                                     Txt("T") >>)),
                                Var(N("s")),
                                FilterBlock(Var(n_string),
                                            Sequence(<< Txt("F"),
                                                        If(<< <<Binary("==", Var(n_x), StrLit("a")),
                                                                LoopControl("Break")>> >>),
                                                        Txt("G") >>)),
                                Call(Var(N("m")), <<Var(n_x)>>),
                                Txt(";") >>),
                    None) >>)

\* {% for x in doc recursive %}{{ '(' ~ loop.self(x) }}){% endfor %}
RecursiveTemplate ==
    ForRecursive(<<n_x>>, Var(n_doc), None,
                 Sequence(<< Binary("~", StrLit("("), MethodCall(Var(n_loop), n_self, <<Var(n_x)>>)),
                             Txt(")") >>),
                 None)

\* {{ doc == doc }}{{ doc in [doc] }}
EqualTemplate ==
    Sequence(<< Binary("==", Var(n_doc), Var(n_doc)),
                Binary("in", Var(n_doc), ArrayE(<<Var(n_doc)>>)) >>)

\* {{ xs == pos }}
PairTemplate == Binary("==", Var(n_xs), Var(n_pos))

Templates ==
    [Dots |-> DotsTemplate,
     Break |-> BreakTemplate,
     First |-> FirstTemplate,
     LoopVars |-> LoopVarsTemplate,
     Params |-> ParamsTemplate,
     Hygiene |-> HygieneTemplate,
     Alias |-> AliasTemplate,
     Shared |-> SharedTemplate,
     Namespace |-> NamespaceTemplate,
     Leak |-> LeakTemplate,
     Sign |-> SignTemplate,
     Order |-> OrderTemplate,
     Arith |-> ArithTemplate,
     Unpack |-> UnpackTemplate,
     Slice |-> SliceTemplate,
     Json |-> JsonTemplate,
     Repr |-> ReprTemplate,
     Keys |-> KeysTemplate,
     Cycle |-> CycleTemplate,
     Mutate |-> MutateTemplate,
     Scope |-> ScopeTemplate,
     Bodies |-> BodiesTemplate,
     Recursive |-> RecursiveTemplate,
     Equal |-> EqualTemplate,
     Pair |-> PairTemplate]

DotsT == "Dots"
BreakT == "Break"
FirstT == "First"
LoopVarsT == "LoopVars"
ParamsT == "Params"
HygieneT == "Hygiene"
AliasT == "Alias"
SharedT == "Shared"
NamespaceT == "Namespace"
LeakT == "Leak"
SignT == "Sign"
OrderT == "Order"
ArithT == "Arith"
UnpackT == "Unpack"
SliceT == "Slice"
JsonT == "Json"
ReprT == "Repr"
KeysT == "Keys"
CycleT == "Cycle"
MutateT == "Mutate"
ScopeT == "Scope"
BodiesT == "Bodies"
RecursiveT == "Recursive"
EqualT == "Equal"
PairT == "Pair"

(***************************************************************************)
(* The caller's data: xs, ys and pos are arrays, kw is an object, n and j   *)
(* are Integers, str is a String.  Items are drawn from ItemSeq by index,  *)
(* keys of kw from KwKeys.                                                 *)
(***************************************************************************)
ItemSeq == <<StrV(<<"a">>), StrV(<<"b">>), NullV>>
KwKeys == <<N("p"), N("q"), N("s"), N("u")>>

IndexSeqs(maxlen, n) == UNION {[1..l -> 1..n] : l \in 0..maxlen}

ItemsOf(ix) == [i \in 1..Len(ix) |-> ItemSeq[ix[i]]]

\* The String str: one letter for each item of xs.
LettersOf(ix) == [i \in 1..Len(ix) |-> <<"a", "b", "c">>[ix[i]]]

OuterItems(n) == [i \in 1..n |-> StrV(<<"a">>)]

RECURSIVE KwMap(_)
KwMap(ks) ==
    IF ks = {} THEN EmptyMap
    ELSE LET i == CHOOSE j \in ks : TRUE
         IN MapSet(KwMap(ks \ {i}), KwKeys[i], StrV(<<"K">>))

\* The Integers of the context.
Ints == -MaxInt..MaxInt

\* The inputs each template is rendered with: the caller's data, and junk,
\* what the uninitialised mDouble of each Integer holds in this run (no
\* template but Sign, Order and Arith reads one).
\* Slice bounds: one beyond the longest xs on either side.
SliceInts == -(MaxLen + 1)..(MaxLen + 1)

\* The JSON documents doc is made from, as the literals that build them:
\* primitives, Arrays and Objects of up to MaxDoc elements (a key may be set
\* twice), and containers in containers.
DocPrims ==
    {Lit(NullV), Lit(BoolV(TRUE)), Lit(BoolV(FALSE)), Lit(IntV(12)), Lit(StrV(<<>>)),
     Lit(StrV(<<"a", "b", "c">>)), Lit(StrV(<<"i", "'", "s">>))}

DocKeys == {<<"b">>, <<"a">>, <<"k", "e", "y">>}
DocValues == {Lit(IntV(12)), Lit(StrV(<<"a", "b", "c">>)), Lit(StrV(<<>>))}

DocArrays(elements) == {ArrayE(es) : es \in UNION {[1..l -> elements] : l \in 0..MaxDoc}}

DocObjects(values) ==
    {DictE(ps) : ps \in UNION {[1..l -> {<<Lit(StrV(k)), v>> : k \in DocKeys, v \in values}] :
                                  l \in 0..MaxDoc}}

DocInner ==
    {ArrayE(<<>>), ArrayE(<<Lit(StrV(<<"a", "b", "c">>))>>), DictE(<<>>),
     DictE(<< <<Lit(StrV(<<"b">>)), Lit(IntV(12))>> >>)}

DocNested ==
    {ArrayE(<<c, Lit(BoolV(TRUE))>>) : c \in DocInner}
        \cup {DictE(<< <<Lit(StrV(<<"k", "e", "y">>)), c>> >>) : c \in DocInner}

\* Arrays in Arrays, three deep at most, with an Integer where a leaf is not
\* iterable.
TreeLeaves == {Lit(IntV(12)), ArrayE(<<>>)}
TreeInner ==
    TreeLeaves \cup {ArrayE(<<e>>) : e \in TreeLeaves}
        \cup {ArrayE(<<ArrayE(<<>>), Lit(IntV(12))>>)}
Trees == DocArrays(TreeInner)

\* The values compared with themselves: primitives, the falsy ones among
\* them, Arrays and Objects of them, and containers of empty containers.
EqualPrims ==
    {Lit(NullV), Lit(BoolV(TRUE)), Lit(BoolV(FALSE)), Lit(IntV(0)), Lit(IntV(1)),
     Lit(StrV(<<>>)), Lit(StrV(<<"a">>))}
EqualDocs ==
    EqualPrims \cup DocArrays(EqualPrims)
        \cup {DictE(<< <<Lit(StrV(<<"k">>)), e>> >>) : e \in EqualPrims}
        \cup {DictE(<<>>), ArrayE(<<ArrayE(<<>>)>>), ArrayE(<<DictE(<<>>)>>),
              ArrayE(<<ArrayE(<<Lit(StrV(<<"a">>))>>)>>),
              DictE(<< <<Lit(StrV(<<"k">>)), ArrayE(<<>>)>> >>)}

Docs == DocPrims \cup DocArrays(DocPrims) \cup DocObjects(DocValues) \cup DocNested

\* What reading past the end of an empty string does (dump_string): the loop
\* is not entered, or the process dies.
OutOfBounds == {<<>>, <<Fault>>}

Inputs(t) ==
    [xs : IF t \in {DotsT, BreakT, FirstT, LoopVarsT, HygieneT, SharedT, NamespaceT, UnpackT,
                    SliceT, CycleT, MutateT, ScopeT, BodiesT, PairT}
          THEN IndexSeqs(MaxLen, Len(ItemSeq))
          ELSE IF t = ParamsT THEN {<<1>>} ELSE {<<>>},
     ys : IF t \in {BreakT, FirstT, HygieneT, CycleT, ScopeT} THEN 0..MaxOuter ELSE {0},
     pos : IF t \in {ParamsT, PairT} THEN IndexSeqs(MaxPos, Len(ItemSeq)) ELSE {<<>>},
     kw : IF t = ParamsT THEN SUBSET (1..Len(KwKeys)) ELSE {{}},
     n : IF t \in {SignT, OrderT, ArithT} THEN Ints
         ELSE IF t = SliceT THEN SliceInts ELSE {0},
     j : IF t \in {OrderT, ArithT} THEN Ints
         ELSE IF t = SliceT THEN SliceInts ELSE {0},
     junk : IF t \in {SignT, OrderT, ArithT} THEN [Ints -> Junk]
            ELSE IF t = EqualT THEN [{0, 1} -> Junk] ELSE {<<>>},
     doc : IF t \in {JsonT, ReprT} THEN Docs
           ELSE IF t = KeysT THEN DocObjects(DocValues)
           ELSE IF t = RecursiveT THEN Trees
           ELSE IF t = EqualT THEN EqualDocs ELSE {Lit(NullV)},
     oob : IF t = ReprT THEN OutOfBounds ELSE {<<>>}]

\* Context::builtins 3252-3647: the globals Object.
BuiltinsCell ==
    ObjectCell(MapSet(MapSet(MapSet(MapSet(EmptyMap, n_length, BuiltinV(n_length)),
                             n_namespace, BuiltinV(n_namespace)),
                             n_tojson, BuiltinV(n_tojson)),
                      n_string, BuiltinV(n_string)))

\* The heap the caller hands over: the context Value (cell 2) holding xs, ys,
\* pos and kw, below the globals (cell 1) that Context::make's default parent
\* builds.
CallerHeap(in) ==
    << BuiltinsCell,
       ObjectCell(MapSetAll(EmptyMap, << <<n_xs, ArrV(3)>>, <<n_ys, ArrV(4)>>,
                                         <<n_pos, ArrV(5)>>, <<n_kw, ObjV(6)>>,
                                         <<n_n, IntV(in.n)>>, <<n_j, IntV(in.j)>>,
                                         <<n_str, StrV(LettersOf(in.xs))>> >>)),
       ArrayCell(ItemsOf(in.xs)),
       ArrayCell(OuterItems(in.ys)),
       ArrayCell(ItemsOf(in.pos)),
       ObjectCell(KwMap(in.kw)) >>

\* doc is built last: Value::array, push_back and Value::object, set, in the
\* order of the document (ArrayExpr and DictExpr build a Value the same way).
InitialHeap(in) ==
    LET Bind(r) == ValueSet(r.h, 2, n_doc, r.v)
    IN Bind(Eval(in.doc, 2, <<>>, CallerHeap(in)))

Frame(node, ctx, out) ==
    [node |-> node, ctx |-> ctx, out |-> out, pc |-> 0, items |-> <<>>, lctx |-> 0, lobj |-> 0]

\* test-fuzz.cpp parse_and_render: Context::make(Value(bindings)) and
\* render_template 3207-3218: a fresh ostringstream, root->render(out, context).
Init ==
    /\ tmpl \in DOMAIN Templates
    /\ input \in Inputs(tmpl)
    /\ heap = InitialHeap(input)
    /\ bindings = 2
    /\ contexts = << [values |-> 1, parent |-> 0], [values |-> 2, parent |-> 1] >>
    /\ stack = << Frame(Templates[tmpl], 2, 1) >>
    /\ outs = << <<>> >>
    /\ mode = "call"
    /\ rv = "Normal"
    /\ run = 1
    /\ result1 = <<>>
    /\ src = <<>>
    /\ it = 1
    /\ pstack = <<>>
    /\ pret = "null"
    /\ pmode = "done"
    /\ tokens = <<>>
    /\ options = NoOptions

(***************************************************************************)
(* The renderer.                                                           *)
(***************************************************************************)
Top == stack[Len(stack)]
Entering(kinds) == mode = "call" /\ Top.node.k \in kinds
Returned(kinds) == mode = "ret" /\ Top.node.k \in kinds

\* `return control;` out of the top render() call.
Return(control) ==
    /\ stack' = SubSeq(stack, 1, Len(stack) - 1)
    /\ rv' = control
    /\ mode' = IF Len(stack) = 1 THEN "done" ELSE "ret"

\* The top render() call, now in state `frame`, calls child->render(...).
Enter(frame, child) ==
    /\ stack' = Append([stack EXCEPT ![Len(stack)] = frame], child)
    /\ rv' = "Normal"
    /\ mode' = "call"

Write(out, text) == [outs EXCEPT ![out] = @ \o text]

\* Does this expression end in a call of the loop function of a recursive
\* For, as in {{ left ~ loop.self(items) }}?  (The items are then rendered
\* step by step.)
IsLoopCall(f) ==
    /\ f.node.k = "Binary"
    /\ f.node.op = "~"
    /\ f.node.right.k = "MethodCall"
    /\ f.node.right.method = n_self
    /\ LET IsLoopFn(o) ==
               /\ is_object(o)
               /\ ValueContains(heap, o.ref, n_self)
               /\ ValueGet(o, StrV(n_self), heap).kind = "loop"
       IN IsLoopFn(Eval(f.node.right.object, f.ctx, contexts, heap).v)

\* The loop function 1898-1900: recursive_out, which nothing writes to, is
\* the value of the call.
recursive_out == <<>>

\* {{ left ~ loop.self(items) }}, up to the first body->render of the loop
\* function 1892-1899: the left operand, the callee and the arguments are
\* evaluated; anything but one positional iterable makes the call Null;
\* else visit(items, call_context) runs, with the `out` and the For of the
\* render call that made the function.
LoopCall ==
    /\ Entering({"Binary"})
    /\ IsLoopCall(Top)
    /\ LET Finish(l, h, cs) ==
               /\ heap' = h
               /\ contexts' = cs
               /\ outs' = Write(Top.out, to_str(l, h))
               /\ Return("Normal")
           Run(l, made, node, f) ==
               IF f.items = <<>> /\ node.else_body.k = "None"
               THEN Finish(l, f.h, f.cs)
               ELSE /\ heap' = LoopSelf(node, f, made)
                    /\ contexts' = f.cs
                    /\ outs' = outs
                    /\ rv' = "Normal"
                    /\ mode' = "call"
                    /\ stack' =
                           [stack EXCEPT ![Len(stack)] = [Top EXCEPT !.pc = 1, !.items = <<l>>]]
                           \o IF f.items # <<>>
                              THEN << [node |-> node, ctx |-> Top.ctx, out |-> stack[made].out,
                                       pc |-> 1, items |-> f.items, lctx |-> f.lctx,
                                       lobj |-> f.lobj],
                                      Frame(node.body, f.lctx, stack[made].out) >>
                              ELSE << [Frame(node, Top.ctx, stack[made].out) EXCEPT !.pc = -1],
                                      Frame(node.else_body, Top.ctx, stack[made].out) >>
           Visit(l, made, a) ==
               IF Len(a.args) # 1 \/ a.kwargs # <<>> \/ ~is_iterable(a.args[1])
               THEN Finish(l, a.h, contexts)
               ELSE Run(l, made, [stack[made].node EXCEPT !.iterable = Lit(a.args[1])],
                        ForIterable(stack[made].node, Top.ctx, contexts,
                                    EvalResult(a.args[1], a.h)))
           Callee(l, o) ==
               Visit(l.v, ValueGet(o.v, StrV(n_self), o.h).depth,
                     EvalArgs(Top.node.right.args, NoArgs, Top.ctx, contexts, o.h))
           WithLeft(l) == Callee(l, Eval(Top.node.right.object, Top.ctx, contexts, l.h))
       IN WithLeft(Eval(Top.node.left, Top.ctx, contexts, heap))
    /\ UNCHANGED <<tmpl, input, bindings, run, result1>>

\* 1900 and BinaryOpExpr 1373, render 884-895: visit has returned, whatever
\* it returned; left ~ recursive_out is written.
LoopCallReturn ==
    /\ Returned({"Binary"})
    /\ Top.pc = 1
    /\ outs' = Write(Top.out, to_str(Top.items[1], heap) \o to_str(StrV(recursive_out), heap))
    /\ Return("Normal")
    /\ UNCHANGED <<heap, contexts, tmpl, input, bindings, run, result1>>

\* TextExpr::render 1737-1740.
TextRender ==
    /\ Entering({"Text"})
    /\ outs' = Write(Top.out, Top.node.text)
    /\ Return("Normal")
    /\ UNCHANGED <<heap, contexts, tmpl, input, bindings, run, result1>>

\* Does this CallExpr call a macro?  (Its body is then rendered step by step.)
IsMacro(o) == is_callable(o) /\ o.kind = "macro"

IsMacroCall(f) ==
    /\ f.node.k = "Call"
    /\ IsMacro(Eval(f.node.object, f.ctx, contexts, heap).v)

\* render() of an expression node ({{ ... }}), 884-895: evaluate, write to_str
\* unless the value is null.  A write that reads out of bounds can end the
\* process (mode "fault").
ExpressionRender ==
    /\ Entering(ExpressionKinds)
    /\ ~IsMacroCall(Top)
    /\ ~IsLoopCall(Top)
    /\ LET Emit(r, text) ==
               /\ heap' = r.h
               /\ IF \E i \in 1..Len(text) : text[i] = Fault
                  THEN mode' = "fault" /\ UNCHANGED <<stack, rv, outs>>
                  ELSE outs' = Write(Top.out, text) /\ Return("Normal")
           Evaluated(r) == Emit(r, to_str(r.v, r.h))
       IN Evaluated(Eval(Top.node, Top.ctx, contexts, heap))
    /\ UNCHANGED <<contexts, tmpl, input, bindings, run, result1>>

\* SequenceExpr::render 1751-1761.
SequenceNext ==
    /\ \/ Entering({"Sequence"})
       \/ Returned({"Sequence"}) /\ rv = "Normal"
    /\ Top.pc < Len(Top.node.children)
    /\ Enter([Top EXCEPT !.pc = @ + 1], Frame(Top.node.children[Top.pc + 1], Top.ctx, Top.out))
    /\ UNCHANGED <<heap, contexts, outs, tmpl, input, bindings, run, result1>>

SequencePropagate ==
    /\ Returned({"Sequence"})
    /\ rv # "Normal"
    /\ Return(rv)
    /\ UNCHANGED <<heap, contexts, outs, tmpl, input, bindings, run, result1>>

SequenceEnd ==
    /\ Returned({"Sequence"})
    /\ rv = "Normal"
    /\ Top.pc = Len(Top.node.children)
    /\ Return("Normal")
    /\ UNCHANGED <<heap, contexts, outs, tmpl, input, bindings, run, result1>>

\* ConditionalBlockExpr::render 1785-1802: the first branch whose condition
\* is absent or truthy (0 when none), and the heap after the conditions.
RECURSIVE SelectBranch(_, _, _, _, _)
SelectBranch(cascade, i, c, cs, h) ==
    IF i > Len(cascade) THEN [branch |-> 0, h |-> h]
    ELSE IF cascade[i][1].k = "None" THEN [branch |-> i, h |-> h]
    ELSE LET Step(r) == IF to_bool(r.v, r.h) THEN [branch |-> i, h |-> r.h]
                        ELSE SelectBranch(cascade, i + 1, c, cs, r.h)
         IN Step(Eval(cascade[i][1], c, cs, h))

IfEnter ==
    /\ Entering({"If"})
    /\ LET Take(sel) ==
               /\ heap' = sel.h
               /\ IF sel.branch = 0 THEN Return("Normal")
                  ELSE Enter([Top EXCEPT !.pc = sel.branch],
                             Frame(Top.node.cascade[sel.branch][2], Top.ctx, Top.out))
       IN Take(SelectBranch(Top.node.cascade, 1, Top.ctx, contexts, heap))
    /\ UNCHANGED <<contexts, outs, tmpl, input, bindings, run, result1>>

IfReturn ==
    /\ Returned({"If"})
    /\ Return(rv)
    /\ UNCHANGED <<heap, contexts, outs, tmpl, input, bindings, run, result1>>

\* LoopControlExpr::render 2109-2111.
LoopControlRender ==
    /\ Entering({"LoopControl"})
    /\ Return(Top.node.type)
    /\ UNCHANGED <<heap, contexts, outs, tmpl, input, bindings, run, result1>>

\* ForExpr::render 1823-1868: evaluate the iterable, filter, and either take
\* the else body, or return, or make the loop scope and render item 0.
ForStart ==
    /\ Entering({"For"})
    /\ LET Start(f) ==
               /\ heap' = LoopSelf(Top.node, f, Len(stack))
               /\ contexts' = f.cs
               /\ IF f.items # <<>>
                  THEN Enter([Top EXCEPT !.pc = 1, !.items = f.items, !.lctx = f.lctx,
                                         !.lobj = f.lobj],
                             Frame(Top.node.body, f.lctx, Top.out))
                  ELSE IF Top.node.else_body.k = "None" THEN Return("Normal")
                  ELSE Enter([Top EXCEPT !.pc = -1], Frame(Top.node.else_body, Top.ctx, Top.out))
       IN Start(ForSetup(Top.node, Top.ctx, contexts, heap))
    /\ UNCHANGED <<outs, tmpl, input, bindings, run, result1>>

\* ForExpr::render 1844-1845: `return else_body_expr->render(...)`.
ForElseReturn ==
    /\ Returned({"For"})
    /\ Top.pc = -1
    /\ Return(rv)
    /\ UNCHANGED <<heap, contexts, outs, tmpl, input, bindings, run, result1>>

\* A faulty ForExit: the Break or Continue of the body leaves the loop with it.
ForExit_propagate(control) == control

\* ForExpr::render 1883: what the For returns when its body returned Break.
ForExit(control) == "Normal"

ForBreak ==
    /\ Returned({"For"})
    /\ Top.pc >= 1
    /\ rv = "Break"
    /\ Return(ForExit(rv))
    /\ UNCHANGED <<heap, contexts, outs, tmpl, input, bindings, run, result1>>

\* ForExpr::render 1869-1885: after Normal or Continue, the next item.
ForNextItem ==
    /\ Returned({"For"})
    /\ Top.pc >= 1
    /\ rv \in {"Normal", "Continue"}
    /\ Top.pc < Len(Top.items)
    /\ heap' = BindItem(Top.node, Top.items, Top.pc, Top.lctx, Top.lobj, contexts, heap)
    /\ Enter([Top EXCEPT !.pc = @ + 1], Frame(Top.node.body, Top.lctx, Top.out))
    /\ UNCHANGED <<contexts, outs, tmpl, input, bindings, run, result1>>

\* ForExpr::render 1869, 1888: no item left.
ForEnd ==
    /\ Returned({"For"})
    /\ Top.pc >= 1
    /\ rv \in {"Normal", "Continue"}
    /\ Top.pc = Len(Top.items)
    /\ Return("Normal")
    /\ UNCHANGED <<heap, contexts, outs, tmpl, input, bindings, run, result1>>

\* SetVarExpr::render 1996-2016: the heap after {% set ... %}.
NamespaceSet(node, ns_object, v, h) ==
    IF ~is_object(ns_object) THEN h
    ELSE ValueSet(h, ns_object.ref, node.var_names[1], v)

\* A faulty SetVarExpr::render: the namespace is ignored and the value is bound
\* in the current scope.
SetVarAssign_local(node, c, cs, r) == destructuring_assign(node.var_names, cs, r.h, c, r.v)

SetVarAssign(node, c, cs, r) ==
    IF node.ns # <<>>
    THEN IF Len(node.var_names) # 1 THEN r.h
         ELSE NamespaceSet(node, ContextGet(cs, r.h, c, node.ns), r.v, r.h)
    ELSE destructuring_assign(node.var_names, cs, r.h, c, r.v)

SetVarRender ==
    /\ Entering({"SetVar"})
    /\ heap' = SetVarAssign(Top.node, Top.ctx, contexts,
                            Eval(Top.node.value, Top.ctx, contexts, heap))
    /\ Return("Normal")
    /\ UNCHANGED <<contexts, outs, tmpl, input, bindings, run, result1>>

\* SetBlockExpr::render 2032-2042: the body is rendered into block_out_str ...
SetBlockEnter ==
    /\ Entering({"SetBlock"})
    /\ outs' = Append(outs, <<>>)
    /\ Enter([Top EXCEPT !.pc = 1], Frame(Top.node.body, Top.ctx, Len(outs) + 1))
    /\ UNCHANGED <<heap, contexts, tmpl, input, bindings, run, result1>>

\* ... whatever it returns, and the string is bound in the current scope.
SetBlockReturn ==
    /\ Returned({"SetBlock"})
    /\ heap' = ContextSet(contexts, heap, Top.ctx, Top.node.name, StrV(outs[Len(outs)]))
    /\ outs' = SubSeq(outs, 1, Len(outs) - 1)
    /\ Return("Normal")
    /\ UNCHANGED <<contexts, tmpl, input, bindings, run, result1>>

\* FilterBlockExpr::render 2061-2066: the body is rendered into a string of
\* its own.
FilterBlockEnter ==
    /\ Entering({"FilterBlock"})
    /\ outs' = Append(outs, <<>>)
    /\ Enter([Top EXCEPT !.pc = 1], Frame(Top.node.body, Top.ctx, Len(outs) + 1))
    /\ UNCHANGED <<heap, contexts, tmpl, input, bindings, run, result1>>

\* 2084-2095: a filter that is not callable leaves the body as it is; else
\* the body is the first argument of the call.
FilterApply(fn, a, body_content) ==
    IF is_callable(fn)
    THEN CallValue(fn, [args |-> <<body_content>> \o a.args, kwargs |-> a.kwargs], a.h)
    ELSE EvalResult(body_content, a.h)

\* 2075-2082: `name(args)` gives the callee and its arguments, `name` the
\* callee alone.
FilterArgs(filter_expr, o, body_content, c, cs) ==
    IF filter_expr.k = "Call"
    THEN FilterApply(o.v, EvalArgs(filter_expr.args, NoArgs, c, cs, o.h), body_content)
    ELSE FilterApply(o.v, [args |-> <<>>, kwargs |-> <<>>, h |-> o.h], body_content)

FilterBlockCall(filter_expr, body_content, c, cs, h) ==
    FilterArgs(filter_expr,
               Eval(IF filter_expr.k = "Call" THEN filter_expr.object ELSE filter_expr,
                    c, cs, h),
               body_content, c, cs)

\* A faulty filter block: what its body returned is returned to the caller.
FilterBlockReturn_propagates ==
    /\ Returned({"FilterBlock"})
    /\ LET Emit(r) ==
               /\ heap' = r.h
               /\ outs' = SubSeq(Write(Top.out, to_str(r.v, r.h)), 1, Len(outs) - 1)
       IN Emit(FilterBlockCall(Top.node.filter_expr, StrV(outs[Len(outs)]),
                               Top.ctx, contexts, heap))
    /\ Return(rv)
    /\ UNCHANGED <<contexts, tmpl, input, bindings, run, result1>>

\* 2057-2097, after the body: whatever it returned, the filtered string is
\* written and Normal returned.
FilterBlockReturn ==
    /\ Returned({"FilterBlock"})
    /\ LET Emit(r) ==
               /\ heap' = r.h
               /\ outs' = SubSeq(Write(Top.out, to_str(r.v, r.h)), 1, Len(outs) - 1)
       IN Emit(FilterBlockCall(Top.node.filter_expr, StrV(outs[Len(outs)]),
                               Top.ctx, contexts, heap))
    /\ Return("Normal")
    /\ UNCHANGED <<contexts, tmpl, input, bindings, run, result1>>

\* MacroDeclExpr::render 1929-1979: bind the closure in the current scope.
MacroDeclRender ==
    /\ Entering({"MacroDecl"})
    /\ heap' = ContextSet(contexts, heap, Top.ctx, Top.node.name, MacroV(Top.node, Top.ctx))
    /\ Return("Normal")
    /\ UNCHANGED <<contexts, outs, tmpl, input, bindings, run, result1>>

\* A faulty closure: the macro body runs in the definition scope itself.
MacroScope_shared(cs, h, context_of_definition) ==
    [cs |-> cs, h |-> h, c |-> context_of_definition]

\* The closure, 1936: the scope the macro body runs in.
MacroScope(cs, h, context_of_definition) == ContextMake(cs, h, context_of_definition)

\* CallExpr::do_evaluate 1644-1656 on a macro: evaluate callee and arguments
\* in the calling context, then the closure 1936-1974 up to body->render.
MacroBind(callee, a, m) ==
    [cs |-> m.cs, c |-> m.c, body |-> callee.decl.body,
     h |-> BindParameters(callee.decl, a, m.cs, m.h, m.c, callee.ctx)]

MacroArgs(callee, cs, a) == MacroBind(callee, a, MacroScope(cs, a.h, callee.ctx))

MacroCallee(node, c, cs, o) == MacroArgs(o.v, cs, EvalArgs(node.args, NoArgs, c, cs, o.h))

MacroSetup(node, c, cs, h) == MacroCallee(node, c, cs, Eval(node.object, c, cs, h))

MacroCall ==
    /\ Entering({"Call"})
    /\ IsMacroCall(Top)
    /\ LET Start(m) ==
               /\ heap' = m.h
               /\ contexts' = m.cs
               /\ Enter([Top EXCEPT !.pc = 1, !.lctx = m.c], Frame(m.body, m.c, Len(outs) + 1))
       IN Start(MacroSetup(Top.node, Top.ctx, contexts, heap))
    /\ outs' = Append(outs, <<>>)
    /\ UNCHANGED <<tmpl, input, bindings, run, result1>>

\* The closure 1973-1975 and CallExpr::render 1657-1666: the body's return
\* value is dropped, its output is the value of the call and is written out.
MacroReturn ==
    /\ Returned({"Call"})
    /\ outs' = [SubSeq(outs, 1, Len(outs) - 1) EXCEPT ![Top.out] = @ \o outs[Len(outs)]]
    /\ Return("Normal")
    /\ UNCHANGED <<heap, contexts, tmpl, input, bindings, run, result1>>

Next ==
    \/ TextRender /\ UNCHANGED parser
    \/ ExpressionRender /\ UNCHANGED parser
    \/ SequenceNext /\ UNCHANGED parser
    \/ SequencePropagate /\ UNCHANGED parser
    \/ SequenceEnd /\ UNCHANGED parser
    \/ IfEnter /\ UNCHANGED parser
    \/ IfReturn /\ UNCHANGED parser
    \/ LoopControlRender /\ UNCHANGED parser
    \/ ForStart /\ UNCHANGED parser
    \/ ForElseReturn /\ UNCHANGED parser
    \/ ForBreak /\ UNCHANGED parser
    \/ ForNextItem /\ UNCHANGED parser
    \/ ForEnd /\ UNCHANGED parser
    \/ SetVarRender /\ UNCHANGED parser
    \/ SetBlockEnter /\ UNCHANGED parser
    \/ SetBlockReturn /\ UNCHANGED parser
    \/ FilterBlockEnter /\ UNCHANGED parser
    \/ FilterBlockReturn /\ UNCHANGED parser
    \/ LoopCall /\ UNCHANGED parser
    \/ LoopCallReturn /\ UNCHANGED parser
    \/ MacroDeclRender /\ UNCHANGED parser
    \/ MacroCall /\ UNCHANGED parser
    \/ MacroReturn /\ UNCHANGED parser

Spec == Init /\ [][Next]_vars

\* A caller rendering the same AST a second time with the same context Value:
\* parse_and_render again, so Context::make(Value(bindings)) on new builtins.
RenderAgain ==
    /\ mode = "done"
    /\ run = 1
    /\ run' = 2
    /\ result1' = outs[1]
    /\ heap' = Append(heap, BuiltinsCell)
    /\ contexts' = contexts \o << [values |-> Len(heap) + 1, parent |-> 0],
                                  [values |-> bindings, parent |-> Len(contexts) + 1] >>
    /\ stack' = << Frame(Templates[tmpl], Len(contexts) + 2, 1) >>
    /\ outs' = << <<>> >>
    /\ mode' = "call"
    /\ rv' = "Normal"
    /\ UNCHANGED <<tmpl, input, bindings>>
    /\ UNCHANGED parser

NextTwice == Next \/ RenderAgain

SpecTwice == Init /\ [][NextTwice]_vars

(***************************************************************************)
(* The parser: Parser::tokenize on a source "{{" body, and the expression  *)
(* parser it calls.  The C++ is recursive descent; here each active call   *)
(* is a frame of `pstack` with its position `pc` in the function.  The     *)
(* body is drawn from Chars, or is one of the named sources; they hold no  *)
(* operator, digit, quote, dot or colon ("=" alone is no operator) and no  *)
(* keyword but if and else: so parseExpression (2351) goes through      *)
(* parseLogicalOr, parseLogicalAnd, parseLogicalNot, parseLogicalCompare,  *)
(* parseStringConcat, parseMathPlusMinus, parseMathMulDivMod, parseMathPow,*)
(* parseMathUnaryPlusMinus and parseExpansion (2386-2683) to               *)
(* parsePrimaryExpression with no token of theirs matching, and every one  *)
(* of them hands the result up unchanged and restores `it` when its token  *)
(* is not there.                                                           *)
(***************************************************************************)
MaxSrc == 3
MaxArgs == 2

Chars == {"x", "[", "]", "(", ")", ",", "}", "=", " "}

\* The letters of the named sources; the identifier characters [a-zA-Z_]\w.
Letters == {"x", "c", "y", "f", "i", "e", "l", "s"}

\* The words of the identifier pattern's exclusion list (2546) that Letters
\* can spell.
Keywords == {<<"i", "f">>, <<"e", "l", "s", "e">>, <<"i", "s">>}

RECURSIVE Bodies(_)
Bodies(n) ==
    IF n = 0 THEN {<<>>}
    ELSE Bodies(n - 1) \cup {Append(b, c) : b \in {b \in Bodies(n - 1) : Len(b) = n - 1}, c \in Chars}

\* {{f(x, c=y)}}
NamedCallSource ==
    <<"{", "{", "f", "(", "x", ",", " ", "c", "=", "y", ")", "}", "}">>

\* {{x if c else y}}
TernarySource ==
    <<"{", "{", "x", " ", "i", "f", " ", "c", " ", "e", "l", "s", "e", " ", "y", "}", "}">>

\* {{(x)if c else y}}
TightTernarySource ==
    <<"{", "{", "(", "x", ")", "i", "f", " ", "c", " ", "e", "l", "s", "e", " ", "y", "}", "}">>

Sources ==
    {<<"{", "{">> \o b : b \in Bodies(MaxSrc)}
        \cup {NamedCallSource, TernarySource, TightTernarySource}

end == Len(src) + 1

\* Parser::peekSymbols 2295-2304 for one one-character symbol.
peekSymbols(symbol) == it # end /\ src[it] = symbol

\* Parser::consumeSpaces 2129-2134: the position after the spaces at position at.
RECURSIVE consumeSpaces(_)
consumeSpaces(at) == IF at # end /\ src[at] = " " THEN consumeSpaces(at + 1) ELSE at

TokenAt(token, p) == p + Len(token) <= end /\ SubSeq(src, p, p + Len(token) - 1) = token

\* Parser::consumeToken(const std::string&) 2341-2350, tried at position at:
\* spaces are skipped, then the position after the token, or at.
consumeTokenAt(token, at) ==
    IF TokenAt(token, consumeSpaces(at)) THEN consumeSpaces(at) + Len(token) ELSE at

\* The same for a one-character token at `it`.
consumeToken(token) == consumeTokenAt(<<token>>, it)

\* Parser::parseIdentifier 2545-2552: the end of the run [a-zA-Z_]\w* that
\* starts at position at, and where an identifier that starts after the spaces
\* at position at ends (at when there is none, or a keyword is there).
RECURSIVE IdentEnd(_)
IdentEnd(at) == IF at # end /\ src[at] \in Letters THEN IdentEnd(at + 1) ELSE at

WordAt(p) == SubSeq(src, p, IdentEnd(p) - 1)

IdentifierAt(p) == IF WordAt(p) = <<>> \/ WordAt(p) \in Keywords THEN p ELSE IdentEnd(p)

parseIdentifier(at) ==
    IF IdentifierAt(consumeSpaces(at)) = consumeSpaces(at) THEN at
    ELSE IdentifierAt(consumeSpaces(at))

\* Parser::consumeToken(const std::regex&) 2325-2340 for a keyword pattern
\* word\b (if_tok 2360, else_tok 2378).
KeywordAt(word, p) == TokenAt(word, p) /\ IdentEnd(p) = p + Len(word)

consumeKeyword(word, at) ==
    IF KeywordAt(word, consumeSpaces(at)) THEN consumeSpaces(at) + Len(word) ELSE at

\* parseCallArgs 2527: consumeToken(R"([a-zA-Z_]\w*(?=\s*=))").  The argument
\* is a string literal, and std::regex's constructor from const char* is
\* explicit, so the call is consumeToken(const std::string&): the text of the
\* pattern is the token looked for.
KwargNameToken ==
    <<"[", "a", "-", "z", "A", "-", "Z", "_", "]", "\\", "w", "*",
      "(", "?", "=", "\\", "s", "*", "=", ")">>

\* A frame of a parse function: n and kw count the args and kwargs of
\* parseCallArgs (the elements of parseArray), arg is where the argument of
\* the current pass starts, named whether it was taken as a keyword argument.
PFrame(k) ==
    [k |-> k, pc |-> 0, first |-> TRUE, n |-> 0, kw |-> 0, arg |-> 0, named |-> FALSE,
     allow_if |-> TRUE]

PTop == pstack[Len(pstack)]

At(k, pc) == pmode = "run" /\ pstack # <<>> /\ PTop.k = k /\ PTop.pc = pc

PGoto(pc, position) ==
    /\ pstack' = [pstack EXCEPT ![Len(pstack)].pc = pc]
    /\ it' = position
    /\ UNCHANGED <<src, pret, pmode, tokens, options>>

PCallFrame(return_pc, frame, position) ==
    /\ pstack' = Append([pstack EXCEPT ![Len(pstack)].pc = return_pc,
                                       ![Len(pstack)].first = FALSE], frame)
    /\ it' = position
    /\ UNCHANGED <<src, pret, pmode, tokens, options>>

PCall(return_pc, callee, position) == PCallFrame(return_pc, PFrame(callee), position)

PReturn(value, position) ==
    /\ pstack' = SubSeq(pstack, 1, Len(pstack) - 1)
    /\ pret' = value
    /\ it' = position
    /\ UNCHANGED <<src, pmode, tokens, options>>

\* Parser::tokenize 2895-2906: "{{" is consumed and parseExpression called.
TokenizeExpressionOpen ==
    /\ At("tokenize", 0)
    /\ PCall(1, "parseExpression", it + 2)

\* 2909-2912: the closing \s*}} is consumed if it is there (else a log line).
TokenizeExpressionClose ==
    /\ At("tokenize", 1)
    /\ pstack' = [pstack EXCEPT ![Len(pstack)].pc = 2]
    /\ it' = consumeTokenAt(<<"}", "}">>, it)
    /\ tokens' = Append(tokens, ExpressionToken("Keep", "Keep", pret))
    /\ UNCHANGED <<src, pret, pmode, options>>

\* 3030-3050: what is left holds no "{{", "{%" or "{#": one text token.
TokenizeText ==
    /\ At("tokenize", 2)
    /\ it # end
    /\ pstack' = [pstack EXCEPT ![Len(pstack)].pc = 2]
    /\ it' = end
    /\ tokens' = Append(tokens, TextToken(SubSeq(src, it, end - 1)))
    /\ UNCHANGED <<src, pret, pmode, options>>

\* 2895, 3057: the loop ends at the end of the source.
TokenizeEnd ==
    /\ At("tokenize", 2)
    /\ it = end
    /\ pstack' = <<>>
    /\ pmode' = "done"
    /\ UNCHANGED <<src, it, pret, tokens, options>>

\* Parser::parseExpression 2351-2352: parseLogicalOr, which comes down to
\* parsePrimaryExpression.
ExpressionStart ==
    /\ At("parseExpression", 0)
    /\ PCall(1, "parsePrimaryExpression", it)

\* 2353-2371: the left side is returned unless the two characters at `it`
\* are "if", no letter follows them, and if_tok is then consumed.
ExpressionLeft ==
    /\ At("parseExpression", 1)
    /\ IF pret = "null" \/ it = end \/ ~PTop.allow_if THEN PReturn(pret, it)
       ELSE IF TokenAt(<<"i", "f">>, it) /\ ~(it + 2 # end /\ src[it + 2] \in Letters)
                 /\ consumeKeyword(<<"i", "f">>, it) # it
            THEN PCall(2, "parsePrimaryExpression", consumeKeyword(<<"i", "f">>, it))
            ELSE PReturn(pret, it)

\* 2373-2384: the condition is back; with else_tok the else branch is
\* parseExpression(false), without it the IfExpr has none.
ExpressionCondition ==
    /\ At("parseExpression", 2)
    /\ IF consumeKeyword(<<"e", "l", "s", "e">>, it) # it
       THEN PCallFrame(3, [PFrame("parseExpression") EXCEPT !.allow_if = FALSE],
                       consumeKeyword(<<"e", "l", "s", "e">>, it))
       ELSE PReturn("if", it)

\* 2384: the IfExpr.
ExpressionElse ==
    /\ At("parseExpression", 3)
    /\ PReturn("if", it)

\* Parser::parsePrimaryExpression 2680-2681.
PrimaryAtom ==
    /\ At("parsePrimaryExpression", 0)
    /\ PCall(1, "parseAtom", it)

\* 2682.
PrimaryBase ==
    /\ At("parsePrimaryExpression", 1)
    /\ IF pret = "null" THEN PReturn("null", it) ELSE PGoto(2, it)

\* 2684-2711: one pass of the postfix loop: a subscript (consumeToken skips
\* spaces before "["), a call (peekSymbols does not), or the end.
PrimaryPostfix ==
    /\ At("parsePrimaryExpression", 2)
    /\ IF it = end THEN PReturn("expr", it)
       ELSE IF consumeToken("[") # it THEN PCall(3, "parseExpression", consumeToken("["))
       ELSE IF peekSymbols("(") THEN PCall(2, "parseCallArgs", it)
       ELSE PReturn("expr", it)

\* 2732-2734: the index is back; "]" is consumed if it is there.
PrimarySubscript ==
    /\ At("parsePrimaryExpression", 3)
    /\ PGoto(2, consumeToken("]"))

\* Parser::parseAtom 2754-2771: no constant starts with a character of Chars
\* or Letters; an identifier, a parenthesised expression, or parseArray.
AtomStart ==
    /\ At("parseAtom", 0)
    /\ IF parseIdentifier(it) # it THEN PReturn("expr", parseIdentifier(it))
       ELSE IF consumeToken("(") # it THEN PCall(1, "parseExpression", consumeToken("("))
       ELSE PCall(2, "parseArray", it)

\* 2765-2768: ")" is consumed if it is there; the inner result is returned.
AtomParen ==
    /\ At("parseAtom", 1)
    /\ PReturn(IF pret = "null" THEN "null" ELSE "expr", consumeToken(")"))

\* 2772-2777: the array, or nullptr (parseDictionary finds no "{").
AtomArray ==
    /\ At("parseAtom", 2)
    /\ PReturn(pret, it)

\* Parser::parseArray 2786-2791.
ArrayOpen ==
    /\ At("parseArray", 0)
    /\ IF consumeToken("[") # it THEN PGoto(1, consumeToken("[")) ELSE PReturn("null", it)

\* 2792-2803, 2807-2808: one pass of the loop up to the call of
\* parseExpression, or the end of the source.
ArrayNext(at) ==
    IF TokenAt(<<"]">>, at) THEN PReturn("expr", at + 1)
    ELSE PCall(2, "parseExpression", IF PTop.first THEN at ELSE consumeTokenAt(<<",">>, at))

ArrayPass ==
    /\ At("parseArray", 1)
    /\ IF it = end THEN PReturn("null", it) ELSE ArrayNext(consumeSpaces(it))

\* 2804-2805: an element that parsed is kept, a null one is dropped.
ArrayElement ==
    /\ At("parseArray", 2)
    /\ pstack' = [pstack EXCEPT ![Len(pstack)].pc = 1,
                                ![Len(pstack)].n = IF pret = "null" THEN @ ELSE @ + 1]
    /\ UNCHANGED <<src, it, pret, pmode, tokens, options>>

\* Parser::parseCallArgs 2508-2514: the "(" the caller peeked.
CallArgsOpen ==
    /\ At("parseCallArgs", 0)
    /\ PGoto(1, consumeToken("("))

\* 2515-2535, 2540-2541: one pass of the loop up to the call of
\* parseExpression: ")" ends it, a "," is consumed after the first argument, a
\* keyword name and its "=" are consumed if consumeToken finds the name; or
\* the end of the source.
CallArgsName(at) ==
    LET after == consumeTokenAt(KwargNameToken, at)
    IN [named |-> after # at,
        value |-> IF after # at THEN consumeTokenAt(<<"=">>, after) ELSE at]

CallArgsCall(at, name) ==
    /\ pstack' = Append([pstack EXCEPT ![Len(pstack)].pc = 2,
                                       ![Len(pstack)].first = FALSE,
                                       ![Len(pstack)].arg = at,
                                       ![Len(pstack)].named = name.named],
                        PFrame("parseExpression"))
    /\ it' = name.value
    /\ UNCHANGED <<src, pret, pmode, tokens, options>>

CallArgsNext(at) ==
    IF TokenAt(<<")">>, at) THEN PReturn("expr", at + 1)
    ELSE CallArgsCall(IF PTop.first THEN at ELSE consumeTokenAt(<<",">>, at),
                      CallArgsName(IF PTop.first THEN at ELSE consumeTokenAt(<<",">>, at)))

CallArgsPass ==
    /\ At("parseCallArgs", 1)
    /\ IF it = end THEN PReturn("expr", it) ELSE CallArgsNext(consumeSpaces(it))

\* 2531-2537: the argument, null or not, is appended to kwargs under its name
\* or to args (their sizes are counted up to MaxArgs).
CallArgsArgument ==
    /\ At("parseCallArgs", 2)
    /\ pstack' = [pstack EXCEPT ![Len(pstack)].pc = 1,
                                ![Len(pstack)].n = IF ~PTop.named /\ @ < MaxArgs THEN @ + 1 ELSE @,
                                ![Len(pstack)].kw = IF PTop.named /\ @ < MaxArgs THEN @ + 1 ELSE @]
    /\ UNCHANGED <<src, it, pret, pmode, tokens, options>>

\* Parser::parse 3196-3203 on a source; the renderer has not started.
InitParse ==
    /\ src \in Sources
    /\ it = 1
    /\ pstack = << PFrame("tokenize") >>
    /\ pret = "null"
    /\ pmode = "run"
    /\ tokens = <<>>
    /\ options = NoOptions
    /\ tmpl = LeakT
    /\ input \in Inputs(LeakT)
    /\ heap = InitialHeap(input)
    /\ bindings = 2
    /\ contexts = << [values |-> 1, parent |-> 0], [values |-> 2, parent |-> 1] >>
    /\ stack = << Frame(Templates[tmpl], 2, 1) >>
    /\ outs = << <<>> >>
    /\ mode = "call"
    /\ rv = "Normal"
    /\ run = 1
    /\ result1 = <<>>

NextParse ==
    \/ TokenizeExpressionOpen /\ UNCHANGED renderer
    \/ TokenizeExpressionClose /\ UNCHANGED renderer
    \/ TokenizeText /\ UNCHANGED renderer
    \/ TokenizeEnd /\ UNCHANGED renderer
    \/ ExpressionStart /\ UNCHANGED renderer
    \/ ExpressionLeft /\ UNCHANGED renderer
    \/ ExpressionCondition /\ UNCHANGED renderer
    \/ ExpressionElse /\ UNCHANGED renderer
    \/ PrimaryAtom /\ UNCHANGED renderer
    \/ PrimaryBase /\ UNCHANGED renderer
    \/ PrimaryPostfix /\ UNCHANGED renderer
    \/ PrimarySubscript /\ UNCHANGED renderer
    \/ AtomStart /\ UNCHANGED renderer
    \/ AtomParen /\ UNCHANGED renderer
    \/ AtomArray /\ UNCHANGED renderer
    \/ ArrayOpen /\ UNCHANGED renderer
    \/ ArrayPass /\ UNCHANGED renderer
    \/ ArrayElement /\ UNCHANGED renderer
    \/ CallArgsOpen /\ UNCHANGED renderer
    \/ CallArgsPass /\ UNCHANGED renderer
    \/ CallArgsArgument /\ UNCHANGED renderer

\* The parser is one thread that keeps running: a step that can be taken is.
SpecParse == InitParse /\ [][NextParse]_vars /\ WF_vars(NextParse)

(***************************************************************************)
(* Parser::parseTemplate 3060-3191 on a token list, and render_template    *)
(* 3207-3218 of what it builds.  The token lists hold Text, Expression,    *)
(* If, Else, EndIf and EndFor tokens, so the branches of parseTemplate for  *)
(* the other openers are not taken.  MNN_ERROR and _printlog print and     *)
(* return: after each of them parseTemplate goes on as the code below it   *)
(* says.                                                                   *)
(***************************************************************************)
MaxTokens == 3

RECURSIVE parseTemplate(_, _), ParseChildren(_, _, _), ParseElse(_, _, _, _), ParseEndIf(_, _, _, _)

\* 3182-3190: no child gives an empty TextExpr, one child is returned as it
\* is, more make a SequenceExpr.
WrapChildren(r) ==
    [node |-> IF r.children = <<>> THEN Text(<<>>)
              ELSE IF Len(r.children) = 1 THEN r.children[1]
              ELSE Sequence(r.children),
     at |-> r.at]

\* parseTemplate from token at on: the node and the token it stopped at.
parseTemplate(ts, at) == WrapChildren(ParseChildren(ts, at, <<>>))

\* 3093-3096: the EndIf is consumed if it is there; any other token is
\* consumed in its place (current_token_it++ in the test), and at the end
\* of the tokens nothing is; the ConditionalBlockExpr is added either way.
ParseEndIf(ts, at, cascade, children) ==
    ParseChildren(ts, IF at > Len(ts) THEN at ELSE at + 1, Append(children, If(cascade)))

\* 3089-3092: an Else token starts the else body.
ParseElse(ts, children, condition, body) ==
    IF body.at <= Len(ts) /\ ts[body.at].type = "Else"
    THEN LET WithElse(else_body) ==
                 ParseEndIf(ts, else_body.at,
                            << <<condition, body.node>>, <<None, else_body.node>> >>, children)
         IN WithElse(parseTemplate(ts, body.at + 1))
    ELSE ParseEndIf(ts, body.at, << <<condition, body.node>> >>, children)

\* 3072-3179: the loop over the tokens: an If opens a cascade, a Text or
\* non-null Expression becomes a child, a closer is left to the caller.
ParseChildren(ts, at, children) ==
    IF at > Len(ts) THEN [children |-> children, at |-> at]
    ELSE CASE ts[at].type = "If" ->
                ParseElse(ts, children, ts[at].condition, parseTemplate(ts, at + 1))
           [] ts[at].type = "Text" ->
                ParseChildren(ts, at + 1, Append(children, Text(ts[at].text)))
           [] ts[at].type = "Expression" ->
                ParseChildren(ts, at + 1, IF ts[at].expr = None THEN children
                                          ELSE Append(children, ts[at].expr))
           [] OTHER -> [children |-> children, at |-> at]

\* The token lists: texts with and without white space around them,
\* expression and block tags with and without the "-" markers.
SpaceHandling == {"Keep", "Strip"}

TokenSet ==
    {TextToken(t) : t \in {<<"a">>, <<" ", "a", " ">>, <<"\n", "a">>}}
        \cup {ExpressionToken(pre, post, StrLit("e")) : pre \in SpaceHandling, post \in SpaceHandling}
        \cup {IfToken(pre, post, Lit(BoolV(b))) : pre \in SpaceHandling, post \in SpaceHandling,
                                                  b \in BOOLEAN}
        \cup {ElseToken("Keep", "Keep"), EndForToken("Keep", "Keep")}
        \cup {EndIfToken(pre, post) : pre \in SpaceHandling, post \in SpaceHandling}

TokenLists == UNION {[1..l -> TokenSet] : l \in 0..MaxTokens}

ParsedT == "Parsed"

\* Parser::parse 3196-3203 has tokenized: tokens_list is any of TokenLists.
InitTemplate ==
    /\ tokens \in TokenLists
    /\ options \in {[NoOptions EXCEPT !.trim_blocks = b] : b \in BOOLEAN}
    /\ pmode = "tokens"
    /\ src = <<>>
    /\ it = 1
    /\ pstack = <<>>
    /\ pret = "null"
    /\ tmpl = ParsedT
    /\ input \in Inputs(ParsedT)
    /\ heap = InitialHeap(input)
    /\ bindings = 2
    /\ contexts = << [values |-> 1, parent |-> 0], [values |-> 2, parent |-> 1] >>
    /\ stack = <<>>
    /\ outs = << <<>> >>
    /\ mode = "idle"
    /\ rv = "Normal"
    /\ run = 1
    /\ result1 = <<>>

\* Parser::parse 3201-3202 and render_template 3207-3218: parseTemplate on
\* all the tokens; a null root returns "", any other is rendered.
RenderTemplate ==
    /\ pmode = "tokens"
    /\ pmode' = "done"
    /\ LET Render(root) ==
               IF root = None THEN mode' = "done" /\ stack' = <<>>
               ELSE mode' = "call" /\ stack' = << Frame(root, 2, 1) >>
       IN Render(parseTemplate(tokens, 1).node)
    /\ UNCHANGED <<heap, contexts, outs, rv, tmpl, input, bindings, run, result1>>
    /\ UNCHANGED <<src, it, pstack, pret, tokens, options>>

NextTemplate ==
    \/ RenderTemplate
    \/ TextRender /\ UNCHANGED parser
    \/ ExpressionRender /\ UNCHANGED parser
    \/ SequenceNext /\ UNCHANGED parser
    \/ SequenceEnd /\ UNCHANGED parser
    \/ IfEnter /\ UNCHANGED parser
    \/ IfReturn /\ UNCHANGED parser

SpecTemplate == InitTemplate /\ [][NextTemplate]_vars

(***************************************************************************)
(* Properties.                                                             *)
(***************************************************************************)
Done == mode = "done"
Out == outs[1]
Bindings(c) == heap[contexts[c].values].map
Given == ItemsOf(input.xs)

RECURSIVE Repeat(_, _)
Repeat(str, n) == IF n = 0 THEN <<>> ELSE str \o Repeat(str, n - 1)

\* What one pass of the inner loop of BreakTemplate must write: "a" continues,
\* "b" breaks after "-", anything else runs the body to its end.
RECURSIVE InnerExpected(_)
InnerExpected(items) ==
    IF items = <<>> THEN <<>>
    ELSE IF Head(items) = StrV(<<"b">>) THEN <<"b", "-">>
    ELSE IF Head(items) = StrV(<<"a">>) THEN <<"a">> \o InnerExpected(Tail(items))
    ELSE <<"!">> \o InnerExpected(Tail(items))

BreakExpected == Repeat(<<"[">> \o InnerExpected(Given) \o <<"]">>, input.ys)

FirstExpected ==
    Repeat(<<"(">> \o (IF Given = <<>> THEN <<"e">> ELSE to_str(Given[1], heap)) \o <<")">>, input.ys)

\* C1: a Break in a For body, directly or through If and Sequence nodes, ends
\* that For with the output so far kept and Normal returned to the parent; a
\* Continue skips only the rest of the current item; the outer For goes on
\* with its next item.  So the nested loops of BreakTemplate and FirstTemplate
\* write exactly the expected text, and a For that got a signal from its body
\* never hands one on.
C1_BreakEndsOnlyItsLoop ==
    /\ [](Done /\ tmpl = BreakT => Out = BreakExpected)
    /\ [](Done /\ tmpl = FirstT => Out = FirstExpected)
    /\ [][Returned({"For"}) /\ Top.pc >= 1 => rv' = "Normal"]_vars

C1_Witness ==
    /\ Done
    /\ tmpl = BreakT
    /\ input.ys = 2
    /\ Given = <<NullV, StrV(<<"b">>)>>
    /\ Out = <<"[", "!", "b", "-", "]", "[", "!", "b", "-", "]">>

\* The items a For of these templates runs over: xs or ys as the caller gave
\* them, less the items its `if` filter (x != 'a') rejects, or the keys of
\* doc.
PassesFilter(v) == v # StrV(<<"a">>)

ForItems(node) ==
    IF node.condition.k = "None"
    THEN IF node.iterable = Var(n_xs) THEN Given
         ELSE IF node.iterable.k = "Literal" THEN for_each(node.iterable.v, heap)
         ELSE IF node.iterable = Var(n_doc) THEN for_each(Bindings(2)[n_doc], heap)
         ELSE OuterItems(input.ys)
    ELSE SelectSeq(Given, PassesFilter)

LoopField(f, name) ==
    ValueGet(ContextGet(contexts, heap, f.lctx, n_loop), StrV(name), heap)

LoopFieldsRight(f, k, items) ==
    /\ LoopField(f, n_index0) = IntV(k)
    /\ LoopField(f, n_index) = IntV(k + 1)
    /\ LoopField(f, n_revindex) = IntV(Len(items) - k)
    /\ LoopField(f, n_revindex0) = IntV(Len(items) - k - 1)
    /\ LoopField(f, n_length) = IntV(Len(items))
    /\ LoopField(f, n_first) = BoolV(k = 0)
    /\ LoopField(f, n_last) = BoolV(k = Len(items) - 1)
    /\ LoopField(f, n_previtem) = (IF k = 0 THEN NullV ELSE items[k])
    /\ LoopField(f, n_nextitem) = (IF k = Len(items) - 1 THEN NullV ELSE items[k + 2])

\* C2: while item k (0-based) of a For over n items is being rendered, the
\* loop object its body reads has index0 = k, index = k+1, revindex = n-k,
\* revindex0 = n-k-1, length = n, first iff k = 0, last iff k = n-1, previtem
\* and nextitem the neighbouring items or null; with an `if` filter n and k
\* count the items that pass.
C2_LoopFields ==
    \A i \in 1..Len(stack) :
        stack[i].node.k = "For" /\ stack[i].pc >= 1
            => LoopFieldsRight(stack[i], stack[i].pc - 1, ForItems(stack[i].node))

C2_Witness ==
    /\ tmpl = LoopVarsT
    /\ Given = <<StrV(<<"a">>), StrV(<<"b">>)>>
    /\ Len(stack) = 2
    /\ stack[1].pc = 1
    /\ LoopField(stack[1], n_index) = IntV(1)
    /\ LoopField(stack[1], n_last) = BoolV(TRUE)

\* C3: {% for x in xs %}.{% endfor %} writes one "." per element of xs, so
\* the output is as long as xs, for every array xs, the empty one included.
C3_OneDotPerItem ==
    Done /\ tmpl = DotsT => Out = [i \in 1..Len(input.xs) |-> "."]

C3_Witness == Done /\ tmpl = DotsT /\ Len(input.xs) = 2 /\ Len(Out) = 2


\* The scope an assignment made by the top render() call goes to: the loop
\* scope for a For binding its variables, the context it renders in otherwise.
Frontmost == IF Top.node.k = "For" THEN Top.lctx ELSE Top.ctx

\* C4: a step of the renderer (set, block set, loop-variable binding, macro
\* definition) changes the bindings of no existing scope but the frontmost
\* one; every ancestor, the builtins root (context 1) included, keeps exactly
\* the bindings it had.
C4_FrontmostOnly ==
    [][mode # "done" =>
          /\ Bindings(1)' = Bindings(1)
          /\ \A c \in 1..Len(contexts) : c # Frontmost => Bindings(c)' = Bindings(c)]_vars

C4_Witness ==
    /\ tmpl = ParamsT
    /\ Len(stack) >= 2
    /\ N("d") \in DOMAIN Bindings(Top.ctx)
    /\ Bindings(Top.ctx)[N("d")] = StrV(<<"L">>)
    /\ Bindings(2)[N("d")] = StrV(<<"D">>)
    /\ N("p") \notin DOMAIN Bindings(2)

\* The scopes visible from scope c: c and its ancestors.
RECURSIVE Chain(_)
Chain(c) == IF c = 0 THEN {} ELSE {c} \cup Chain(contexts[c].parent)

\* The stack positions of macro calls: about to bind (the top) or in the body.
MacroFrames ==
    {i \in 1..Len(stack) :
        /\ stack[i].node.k = "Call"
        /\ stack[i].pc = 1 \/ (i = Len(stack) /\ mode = "call" /\ IsMacroCall(stack[i]))}

DefinitionScope(f) == Eval(f.node.object, f.ctx, contexts, heap).v.ctx

\* C5: from the moment a macro is called until its call has returned, no step
\* (parameter binding, set, block set, loop-variable binding in the body)
\* changes the bindings of any scope visible from the caller's scope or from
\* the macro's definition scope; so nothing bound in the body is visible there
\* afterwards.
C5_MacroHygiene ==
    [][\A i \in MacroFrames :
          \A c \in Chain(stack[i].ctx) \cup Chain(DefinitionScope(stack[i])) :
              Bindings(c)' = Bindings(c)]_vars

C5_Witness ==
    /\ tmpl = HygieneT
    /\ mode = "ret"
    /\ Top.node.k = "Call"
    /\ input.ys = 2
    /\ Len(Given) = 2
    /\ {N("p"), N("v"), N("w")} \subseteq DOMAIN Bindings(Top.lctx)
    /\ \A name \in {N("p"), N("v"), N("w"), N("z")} :
           ~ContextContains(contexts, heap, Top.ctx, name)

\* The value each parameter of ParamsTemplate's macro m(p, q='Q', r=d, s=p)
\* must get from the call m(*pos, **kw): positional, else keyword, else the
\* default read at the definition site, where d is 'D' and p is not defined.
ParamsDefault == <<NullV, StrV(<<"Q">>), StrV(<<"D">>), NullV>>

ParamExpected(i) ==
    IF i <= Len(input.pos) THEN ItemsOf(input.pos)[i]
    ELSE IF \E j \in input.kw : KwKeys[j] = MacroParams[i][1] THEN StrV(<<"K">>)
    ELSE ParamsDefault[i]

\* A macro body is about to render: the call below it has just bound.
JustCalled ==
    /\ mode = "call"
    /\ Len(stack) >= 2
    /\ Top.pc = 0
    /\ stack[Len(stack) - 1].node.k = "Call"
    /\ stack[Len(stack) - 1].pc = 1

\* C6: when a macro is called its body runs in a new scope whose parent is
\* the scope the macro was defined in (here the root context 2, never the
\* calling loop scope), holding exactly the declared parameters, each bound
\* to its positional argument, else its keyword argument, else its default
\* evaluated in the definition scope.
C6_ParameterBinding ==
    JustCalled =>
        /\ Top.ctx = Len(contexts)
        /\ contexts[Top.ctx].parent = 2
        /\ Top.ctx \notin Chain(stack[Len(stack) - 1].ctx)
        /\ tmpl = ParamsT =>
              /\ DOMAIN Bindings(Top.ctx) = {MacroParams[i][1] : i \in 1..Len(MacroParams)}
              /\ \A i \in 1..Len(MacroParams) :
                     Bindings(Top.ctx)[MacroParams[i][1]] = ParamExpected(i)

C6_Witness ==
    /\ JustCalled
    /\ tmpl = ParamsT
    /\ input.pos = <<1>>
    /\ input.kw = {2, 3}
    /\ stack[Len(stack) - 1].ctx # 2
    /\ Bindings(stack[Len(stack) - 1].ctx)[N("d")] = StrV(<<"L">>)
    /\ Bindings(Top.ctx)[N("r")] = StrV(<<"D">>)

SharedExpected == ToDecimal(Len(Given) + 1) \o <<"c", "d", "v", "a">>

\* C7: an array or object bound to a second name, passed to a macro or read
\* from a scope is the same array or object: after append, insert, pop and
\* attribute set through one handle the other handle shows the result.  So
\* AliasTemplate writes "1", and SharedTemplate writes the grown length of
\* xs, the popped "c", the inserted "d", the attribute "v", and the copied
\* string "a"; and b, once bound, is the very handle xs is.
C7_ReferenceSemantics ==
    /\ Done /\ tmpl = AliasT => Out = <<"1">>
    /\ Done /\ tmpl = SharedT => Out = SharedExpected
    /\ tmpl = SharedT /\ N("b") \in DOMAIN Bindings(2) => Bindings(2)[N("b")] = Bindings(2)[n_xs]

C7_Witness ==
    /\ Done
    /\ tmpl = SharedT
    /\ Len(Given) = 2
    /\ heap[3].items = <<StrV(<<"d">>)>> \o Given
    /\ Out = <<"3", "c", "d", "v", "a">>

NamespaceExpected ==
    (IF Given = <<>> THEN <<>> ELSE to_str(Given[Len(Given)], heap)) \o <<"|">>

\* C8: {% set ns.k = v %} changes the object ns names and binds nothing: no
\* scope ever has a binding k; after the For body of NamespaceTemplate (and
\* the macro body of HygieneTemplate) has ended ns.k still reads the last
\* value set there, while the plain set made beside it (u, or v in the macro)
\* is not visible.
C8_NamespaceSet ==
    /\ tmpl \in {NamespaceT, HygieneT} =>
          \A c \in 1..Len(contexts) : N("k") \notin DOMAIN Bindings(c)
    /\ Done /\ tmpl = NamespaceT =>
          /\ Out = NamespaceExpected
          /\ ~ContextContains(contexts, heap, 2, N("u"))
          /\ Given # <<>> =>
                ValueGet(Bindings(2)[n_ns], StrV(N("k")), heap) = Given[Len(Given)]
    /\ Done /\ tmpl = HygieneT /\ input.ys > 0 =>
          /\ ValueGet(Bindings(2)[n_ns], StrV(N("k")), heap) = StrV(<<"a">>)
          /\ ~ContextContains(contexts, heap, 2, N("v"))

C8_Witness ==
    /\ Done
    /\ tmpl = NamespaceT
    /\ Given = <<StrV(<<"a">>), StrV(<<"b">>)>>
    /\ Out = <<"b", "|">>

\* C9: render is a pure function of the AST and the context Value: a second
\* render of the same AST with the same context Value returns what the first
\* returned, and a finished render has left the caller's context Value
\* binding exactly what it bound when it was handed over.
C9_RenderIsPure ==
    /\ run = 2 /\ Done => Out = result1
    /\ Done => DOMAIN heap[bindings].map = {n_xs, n_ys, n_pos, n_kw, n_n, n_j, n_str, n_doc}

\* Is the argument that starts at position at written name=v (spaces allowed
\* before the name and before the "=", which is not the "==" operator)?
NamedAt(p) ==
    /\ IdentifierAt(p) # p
    /\ TokenAt(<<"=">>, consumeSpaces(IdentEnd(p)))
    /\ ~TokenAt(<<"=", "=">>, consumeSpaces(IdentEnd(p)))

WrittenNamed(at) == NamedAt(consumeSpaces(at))

\* C11: in a call f(a, name=v) the argument written name=v is parsed as a
\* named argument: when parseCallArgs has taken an argument that is written
\* name=v, it has taken it as a keyword argument.
C11_NamedArgumentParsedNamed ==
    \A i \in 1..Len(pstack) :
        pstack[i].k = "parseCallArgs" /\ pstack[i].pc = 1 /\ pstack[i].arg # 0
            /\ WrittenNamed(pstack[i].arg)
        => pstack[i].named

\* C12: an expression written x if c else y, with spaces around the words,
\* parses to a ternary: when parseExpression hands tokenize an expression,
\* what is left of the source does not begin (after spaces) with the word if
\* of a ternary that was left unparsed.
C12_TernaryParsed ==
    At("tokenize", 1) /\ pret # "null" => ~KeywordAt(<<"i", "f">>, consumeSpaces(it))

\* What the Sign and Order templates render when Integers compare by value.
SignExpected ==
    IF input.n < 0 THEN <<"n", "e", "g">>
    ELSE IF input.n = 0 THEN <<"z", "e", "r", "o">> ELSE <<"p", "o", "s">>

OrderExpected ==
    (IF input.n < input.j THEN <<"<">> ELSE <<>>) \o (IF input.n > input.j THEN <<">">> ELSE <<>>)
        \o (IF input.n <= input.j THEN <<"[">> ELSE <<>>)
        \o (IF input.n >= input.j THEN <<"]">> ELSE <<>>)

\* C13: comparison of Integers is numeric: n < j, n > j, n <= j and n >= j
\* are true exactly when the Integers stand in that order, and the Sign
\* template renders neg for a negative n, zero for 0 and pos for a positive n.
C13_IntegerComparisonNumeric ==
    /\ Done /\ tmpl = SignT => Out = SignExpected
    /\ Done /\ tmpl = OrderT => Out = OrderExpected

\* The floor of the quotient of two integers.
FloorDiv(a, b) == IF b > 0 THEN a \div b ELSE (-a) \div (-b)

\* Is v what Integer arithmetic makes of n op j?
ArithExpected(op, v) ==
    CASE op = "+" -> v = IntV(input.n + input.j)
      [] op = "-" -> v = IntV(input.n - input.j)
      [] op = "*" -> v = IntV(input.n * input.j)
      [] op = "//" -> v = IntV(FloorDiv(input.n, input.j))
      [] op = "%" -> is_number_integer(v)
      [] op = "/" -> is_number_float(v) /\ v.d * input.j = input.n

\* C14: Integer arithmetic stays Integer except "/": with a nonzero j, the
\* values of n + j, n - j, n * j, n // j and n % j are Integers (n // j the
\* floor of the quotient), and n / j is a Float, the true quotient (looked at
\* where j divides n, the quotients the model's doubles can hold).
C14_IntegerArithmetic ==
    tmpl = ArithT /\ Entering({"Binary"}) /\ input.j # 0
        /\ (Top.node.op = "/" => Rem(input.n, input.j) = 0)
    => ArithExpected(Top.node.op, Eval(Top.node, Top.ctx, contexts, heap).v)

\* C15: division by zero fails: a render that evaluates n / j, n // j or n % j
\* with j = 0 does not return an output string.
C15_DivideByZeroAborts == tmpl = ArithT /\ input.j = 0 => ~Done

\* C16: destructuring is allowed only for arrays of matching arity: a set
\* with two target names whose value is not an array of exactly two elements
\* is an error that aborts the render, and neither target name is bound.
C16_DestructuringArity ==
    tmpl = UnpackT /\ Len(input.xs) # Len(UnpackTemplate.children[1].var_names)
    => ~Done /\ DOMAIN Bindings(2) \cap {n_x, n_y} = {}

\* Do the block tags of the token list ts, from token i on with `open` Ifs
\* open, match: every If has its EndIf, every closer its opener?
RECURSIVE Matched(_, _, _)
Matched(ts, i, open) ==
    IF i > Len(ts) THEN open = 0
    ELSE CASE ts[i].type = "If" -> Matched(ts, i + 1, open + 1)
           [] ts[i].type = "Else" -> open > 0 /\ Matched(ts, i + 1, open)
           [] ts[i].type = "EndIf" -> open > 0 /\ Matched(ts, i + 1, open - 1)
           [] ts[i].type = "EndFor" -> FALSE
           [] OTHER -> Matched(ts, i + 1, open)

\* C17: unmatched openers or closers are fatal: a token list with an If
\* without its EndIf, a closer of the wrong kind or a closer without opener
\* yields no AST, and nothing is rendered from it.
C17_UnmatchedIsFatal == ~Matched(tokens, 1, 0) => stack = <<>> /\ Out = <<>>

\* A text without its leading, or trailing, white space.
WhiteSpace == {" ", "\n"}

RECURSIVE LStrip(_)
LStrip(text) == IF text # <<>> /\ Head(text) \in WhiteSpace THEN LStrip(Tail(text)) ELSE text

RECURSIVE RStrip(_)
RStrip(text) ==
    IF text # <<>> /\ text[Len(text)] \in WhiteSpace THEN RStrip(SubSeq(text, 1, Len(text) - 1))
    ELSE text

\* The token list ts with the "-" markers applied to its texts.
WhitespaceControlled(ts) ==
    [i \in 1..Len(ts) |->
        IF ts[i].type # "Text" THEN ts[i]
        ELSE LET right == IF i < Len(ts) /\ ts[i + 1].pre_space = "Strip"
                          THEN RStrip(ts[i].text) ELSE ts[i].text
             IN TextToken(IF i > 1 /\ ts[i - 1].post_space = "Strip" THEN LStrip(right) ELSE right)]

\* C19: the white-space control markers are applied: the white space at the
\* end of a text before a tag that opens with "-", and at the start of a
\* text after a tag that closes with "-", is not in what is rendered: the
\* AST that is rendered is the one of the token list with those texts
\* stripped (trim_blocks unset).
C19_WhitespaceControl ==
    stack # <<>> /\ ~options.trim_blocks
    => stack[1].node = parseTemplate(WhitespaceControlled(tokens), 1).node

\* The token list ts with the newline that follows a block tag dropped.
BlockTypes == {"If", "Else", "EndIf", "EndFor"}

TrimBlocks(ts) ==
    [i \in 1..Len(ts) |->
        IF ts[i].type = "Text" /\ i > 1 /\ ts[i - 1].type \in BlockTypes
              /\ ts[i].text # <<>> /\ Head(ts[i].text) = "\n"
        THEN TextToken(Tail(ts[i].text)) ELSE ts[i]]

NoMarkers(ts) == \A i \in 1..Len(ts) : ts[i].pre_space = "Keep" /\ ts[i].post_space = "Keep"

PyBound(omitted, v, len, lower, upper, default) ==
    IF omitted THEN default
    ELSE LET w == IF v < 0 THEN v + len ELSE v
         IN IF w < lower THEN lower ELSE IF w > upper THEN upper ELSE w

\* The indices (from 0) Python's x[a:b] and x[a:b:-1] take; no_a and no_b
\* say that the bound is omitted.
PyIndices(len, no_a, a, no_b, b, reversed) ==
    IF reversed
    THEN LET Down(start, stop) == [i \in 1..(start - stop) |-> start - i + 1]
         IN Down(PyBound(no_a, a, len, -1, len - 1, len - 1),
                 PyBound(no_b, b, len, -1, len - 1, -1))
    ELSE LET Up(start, stop) == [i \in 1..(stop - start) |-> start + i - 1]
         IN Up(PyBound(no_a, a, len, 0, len, 0), PyBound(no_b, b, len, 0, len, len))

\* What Python makes of the slice expression e on the sequence elems.
PySlice(e, elems) ==
    LET ix == PyIndices(Len(elems), e.start.k = "None", input.n,
                        e.end.k = "None", input.j, e.step.k # "None")
    IN [i \in 1..Len(ix) |-> elems[ix[i] + 1]]

\* The set statement of the Slice template that has just been rendered.
SliceDone == tmpl = SliceT /\ mode = "ret" /\ Len(stack) = 1 /\ Top.pc >= 1

\* C18: slices match Python: for the Array xs and the String str, of any
\* length, and any Integers n and j, x[n:j] and x[n:j:-1], with either bound
\* omitted as well, have exactly the elements Python's slice has, so
\* str[::-1] is str reversed.
C18_SlicesMatchPython ==
    SliceDone =>
        LET e == Top.node.children[Top.pc].value
            y == Bindings(2)[n_y]
        IN IF e.base = Var(n_xs)
           THEN is_array(y) /\ heap[y.ref].items = PySlice(e.index, Given)
           ELSE is_string(y) /\ y.s = PySlice(e.index, LettersOf(input.xs))

C18_Witness ==
    /\ tmpl = SliceT /\ Done
    /\ input.xs = <<1, 2>>
    /\ Bindings(2)[n_y] = StrV(<<"b", "a">>)

\* A Value as the document it holds: Arrays and Objects by their contents.
RECURSIVE Plain(_, _)
Plain(v, h) ==
    CASE v.t = "array" ->
           [t |-> "array", items |-> [i \in 1..Len(h[v.ref].items) |-> Plain(h[v.ref].items[i], h)]]
      [] v.t = "object" ->
           [t |-> "object", map |-> [k \in DOMAIN h[v.ref].map |-> Plain(h[v.ref].map[k], h)]]
      [] OTHER -> v

\* A JSON reader (RFC 8259: null, true, false, integers, strings with \" and
\* \\ escapes, arrays, objects, blanks between tokens): the document read
\* from position p of text, and the position after it; ok is FALSE where text
\* is not JSON.
NotJson(p) == [ok |-> FALSE, v |-> NullV, p |-> p]
Read(v, p) == [ok |-> TRUE, v |-> v, p |-> p]

RECURSIVE SkipBlanks(_, _)
SkipBlanks(text, p) == IF p <= Len(text) /\ text[p] = " " THEN SkipBlanks(text, p + 1) ELSE p

WordIsAt(text, p, word) ==
    /\ p + Len(word) - 1 <= Len(text)
    /\ SubSeq(text, p, p + Len(word) - 1) = word

IsDigit(ch) == \E d \in 0..9 : Digit(d) = ch
DigitValue(ch) == CHOOSE d \in 0..9 : Digit(d) = ch

RECURSIVE ReadDigits(_, _, _)
ReadDigits(text, p, acc) ==
    IF p <= Len(text) /\ IsDigit(text[p]) THEN ReadDigits(text, p + 1, 10 * acc + DigitValue(text[p]))
    ELSE [n |-> acc, p |-> p]

ReadNumber(text, p) ==
    LET neg == p <= Len(text) /\ text[p] = "-"
        first == IF neg THEN p + 1 ELSE p
        Signed(r) == Read(IntV(IF neg THEN -r.n ELSE r.n), r.p)
    IN IF first <= Len(text) /\ IsDigit(text[first]) THEN Signed(ReadDigits(text, first, 0))
       ELSE NotJson(p)

\* The characters of a string from position p (after the opening quote).
RECURSIVE ReadChars(_, _, _)
ReadChars(text, p, acc) ==
    IF p > Len(text) THEN NotJson(p)
    ELSE IF text[p] = "\"" THEN Read(StrV(acc), p + 1)
    ELSE IF text[p] = "\\"
         THEN IF p + 1 <= Len(text) /\ text[p + 1] \in {"\"", "\\"}
              THEN ReadChars(text, p + 2, Append(acc, text[p + 1]))
              ELSE NotJson(p)
    ELSE ReadChars(text, p + 1, Append(acc, text[p]))

ReadString(text, p) ==
    IF p <= Len(text) /\ text[p] = "\"" THEN ReadChars(text, p + 1, <<>>) ELSE NotJson(p)

RECURSIVE ReadValue(_, _)
RECURSIVE ReadElements(_, _, _)
RECURSIVE ReadMembers(_, _, _)

\* After an element: "," and the next one, or "]".
ReadElements(text, p, items) ==
    LET Next1(r) ==
            IF ~r.ok THEN r
            ELSE LET q == SkipBlanks(text, r.p)
                 IN IF q <= Len(text) /\ text[q] = ","
                    THEN ReadElements(text, SkipBlanks(text, q + 1), Append(items, r.v))
                    ELSE IF q <= Len(text) /\ text[q] = "]"
                    THEN Read([t |-> "array", items |-> Append(items, r.v)], q + 1)
                    ELSE NotJson(q)
    IN Next1(ReadValue(text, p))

\* After a member "key": value: "," and the next one, or "}".
ReadMembers(text, p, map) ==
    LET WithValue(k, r) ==
            IF ~r.ok THEN r
            ELSE LET q == SkipBlanks(text, r.p)
                 IN IF q <= Len(text) /\ text[q] = ","
                    THEN ReadMembers(text, SkipBlanks(text, q + 1), MapSet(map, k.v.s, r.v))
                    ELSE IF q <= Len(text) /\ text[q] = "}"
                    THEN Read([t |-> "object", map |-> MapSet(map, k.v.s, r.v)], q + 1)
                    ELSE NotJson(q)
        WithKey(k) ==
            IF ~k.ok THEN k
            ELSE LET q == SkipBlanks(text, k.p)
                 IN IF q <= Len(text) /\ text[q] = ":"
                    THEN WithValue(k, ReadValue(text, SkipBlanks(text, q + 1)))
                    ELSE NotJson(q)
    IN WithKey(ReadString(text, p))

ReadValue(text, p) ==
    IF p > Len(text) THEN NotJson(p)
    ELSE IF WordIsAt(text, p, <<"n", "u", "l", "l">>) THEN Read(NullV, p + 4)
    ELSE IF WordIsAt(text, p, <<"t", "r", "u", "e">>) THEN Read(BoolV(TRUE), p + 4)
    ELSE IF WordIsAt(text, p, <<"f", "a", "l", "s", "e">>) THEN Read(BoolV(FALSE), p + 5)
    ELSE IF text[p] = "\"" THEN ReadString(text, p)
    ELSE IF text[p] = "["
         THEN LET q == SkipBlanks(text, p + 1)
              IN IF q <= Len(text) /\ text[q] = "]"
                 THEN Read([t |-> "array", items |-> <<>>], q + 1)
                 ELSE ReadElements(text, q, <<>>)
    ELSE IF text[p] = "{"
         THEN LET q == SkipBlanks(text, p + 1)
              IN IF q <= Len(text) /\ text[q] = "}"
                 THEN Read([t |-> "object", map |-> EmptyMap], q + 1)
                 ELSE ReadMembers(text, q, EmptyMap)
    ELSE ReadNumber(text, p)

\* text is one JSON document, and doc is what it reads as.
ReadsBackAs(text, doc) ==
    LET Whole(r) == r.ok /\ SkipBlanks(text, r.p) = Len(text) + 1 /\ r.v = doc
    IN Whole(ReadValue(text, SkipBlanks(text, 1)))

\* C21: JSON round trip: for every doc made from a JSON document (null,
\* booleans, integers, strings, arrays, objects, nested), what
\* {{ doc | tojson }} writes is JSON that reads back as a Value equal to doc.
C21_JsonRoundTrip ==
    tmpl = JsonT /\ Done => ReadsBackAs(Out, Plain(Bindings(2)[n_doc], heap))

\* The keys of the Object literal with the pairs ps, in the order in which
\* they are first inserted.
RECURSIVE InsertedKeys(_, _)
InsertedKeys(ps, seen) ==
    IF ps = <<>> THEN <<>>
    ELSE IF Head(ps)[1].v.s \in seen THEN InsertedKeys(Tail(ps), seen)
    ELSE <<Head(ps)[1].v.s>> \o InsertedKeys(Tail(ps), seen \cup {Head(ps)[1].v.s})

RECURSIVE KeysText(_)
KeysText(ks) == IF ks = <<>> THEN <<>> ELSE Head(ks) \o <<",">> \o KeysText(Tail(ks))

\* The keys of the [key, value] pairs of the Array y that items() returned.
ItemsKeys ==
    LET pairs == heap[Bindings(2)[n_y].ref].items
    IN [i \in 1..Len(pairs) |-> heap[pairs[i].ref].items[1].s]

\* C22: an Object is insertion-ordered: a For over doc and doc.items() visit
\* the keys of doc in the order in which they were first inserted, whatever
\* the insertions were.
C22_InsertionOrder ==
    tmpl = KeysT /\ Done =>
        /\ Out = KeysText(InsertedKeys(input.doc.elements, {}))
        /\ ItemsKeys = InsertedKeys(input.doc.elements, {})

\* The Strings (keys included) inside the Array or Object literal e.
RECURSIVE StringsIn(_)
StringsIn(e) ==
    CASE e.k = "Array" ->
           UNION {IF e.elements[i].k = "Literal"
                  THEN (IF is_string(e.elements[i].v) THEN {e.elements[i].v.s} ELSE {})
                  ELSE StringsIn(e.elements[i]) : i \in 1..Len(e.elements)}
      [] e.k = "Dict" ->
           UNION {{e.elements[i][1].v.s}
                      \cup (IF e.elements[i][2].k = "Literal"
                            THEN (IF is_string(e.elements[i][2].v)
                                  THEN {e.elements[i][2].v.s} ELSE {})
                            ELSE StringsIn(e.elements[i][2])) : i \in 1..Len(e.elements)}

Occurs(word, text) ==
    \E p \in 1..(Len(text) - Len(word) + 1) : SubSeq(text, p, p + Len(word) - 1) = word

\* C23: an Array or Object renders in its Python-like form: the render
\* finishes, and every String inside doc and every key (those that hold no
\* quote of their own) stands complete between single quotes in what
\* {{ doc }} writes.
C23_QuotedStringsComplete ==
    tmpl = ReprT /\ input.doc.k \in {"Array", "Dict"} =>
        /\ mode # "fault"
        /\ Done => \A str \in StringsIn(input.doc) :
                      (\A i \in 1..Len(str) : str[i] # "'")
                          => Occurs(<<"'">> \o str \o <<"'">>, Out)

\* What the Cycle template must write: in each pass of the outer loop the
\* inner loop's calls are numbered from 0 (two to an item), and the outer
\* loop's own call is its o-th.
CycleInner ==
    [i \in 1..(2 * Len(input.xs)) |->
        IF i % 2 = 1 THEN <<"a", "b">>[((i - 1) % 2) + 1] ELSE <<"a", "b", "c">>[((i - 1) % 3) + 1]]

RECURSIVE CycleOuter(_)
CycleOuter(o) ==
    IF o = input.ys THEN <<>>
    ELSE CycleInner \o <<"|", <<"p", "q">>[(o % 2) + 1]>> \o CycleOuter(o + 1)

\* C24: within one For, loop.cycle(a_0, ..., a_{m-1}) returns a_{i mod m}
\* where i counts the calls made during that loop from 0, one by one; a
\* nested For and a later For count from 0 on their own.
C24_CycleCounts == tmpl = CycleT /\ Done => Out = CycleOuter(0)

C24_Witness ==
    /\ tmpl = CycleT /\ Done
    /\ Out = <<"a", "b", "a", "a", "|", "p", "a", "b", "a", "a", "|", "q">>

\* C25: % is Python's modulo: for Integers n and a nonzero j, n % j is an
\* Integer that is 0 or has the sign of j, and n = floor(n / j) * j + (n % j).
C25_PythonModulo ==
    tmpl = ArithT /\ Entering({"Binary"}) /\ Top.node.op = "%" /\ input.j # 0 =>
        LET Holds(v) ==
                /\ is_number_integer(v)
                /\ v.i = 0 \/ (v.i < 0 <=> input.j < 0)
                /\ input.n = FloorDiv(input.n, input.j) * input.j + v.i
        IN Holds(Eval(Top.node, Top.ctx, contexts, heap).v)

\* C26: the number of iterations of a For is fixed when it starts: the body
\* is rendered once for each item that passed the filter then, and the For
\* ends, although the body appends to, inserts into and pops from the Array
\* being iterated.
C26_IterationsFixed ==
    tmpl = MutateT =>
        /\ \A i \in 1..Len(stack) :
               stack[i].node.k = "For" => stack[i].pc <= Len(SelectSeq(Given, PassesFilter))
        /\ Done => Out = [i \in 1..Len(SelectSeq(Given, PassesFilter)) |-> "."]

C26_Witness ==
    /\ tmpl = MutateT /\ Done
    /\ Given = <<StrV(<<"b">>), NullV>>
    /\ heap[3].items = <<StrV(<<"b">>), StrV(<<"b">>), NullV>>
    /\ Out = <<".", ".">>

\* The Scope template is about to render the body of its inner For for an
\* item, and its outer body has just got its inner For back.
InnerItemStarts == tmpl = ScopeT /\ Len(stack) = 5 /\ mode = "call" /\ Top.pc = 0
InnerForEnded == tmpl = ScopeT /\ Len(stack) = 3 /\ mode = "ret" /\ Top.pc = 1

Visible(name) == ContextContains(contexts, heap, Top.ctx, name)

\* C27: the iterations of one For share one loop scope: v, set to x in one
\* iteration, is unbound at the first item and is the previous item at the
\* start of every later one; when the inner For has ended neither v nor its
\* loop variable x is visible in the outer body, whose own loop variable y
\* and loop fields are what they were; and after the outer For nothing of
\* either loop is bound in the context.
C27_SharedLoopScope ==
    /\ InnerItemStarts =>
           IF stack[4].pc = 1 THEN ~Visible(N("v"))
           ELSE /\ Visible(N("v"))
                /\ ContextGet(contexts, heap, Top.ctx, N("v")) = Given[stack[4].pc - 1]
    /\ InnerForEnded =>
           /\ ~Visible(N("v")) /\ ~Visible(n_x)
           /\ ContextGet(contexts, heap, Top.ctx, n_y) = OuterItems(input.ys)[stack[2].pc]
           /\ LoopFieldsRight(stack[2], stack[2].pc - 1, OuterItems(input.ys))
    /\ tmpl = ScopeT /\ Done => DOMAIN Bindings(2) \cap {N("v"), n_x, n_y, n_loop} = {}

C27_Witness ==
    /\ InnerItemStarts
    /\ stack[2].pc = 2
    /\ stack[4].pc = 2
    /\ Given = <<StrV(<<"b">>), StrV(<<"a">>)>>
    /\ ContextGet(contexts, heap, Top.ctx, N("v")) = StrV(<<"b">>)

\* What one item of the Bodies template must write: "a" stops the set block
\* after S and the filter block after F, "b" stops the macro body after <.
RECURSIVE BodiesExpected(_)
BodiesExpected(items) ==
    IF items = <<>> THEN <<>>
    ELSE (CASE Head(items) = StrV(<<"a">>) -> <<"S", "F", "<", ">", ";">>
            [] Head(items) = StrV(<<"b">>) -> <<"S", "T", "F", "G", "<", ";">>
            [] OTHER -> <<"S", "T", "F", "G", "<", ">", ";">>)
         \o BodiesExpected(Tail(items))

\* C28: a Break or Continue inside a set block, a filter block or a macro body
\* ends that body only: the text before it is bound, filtered or returned,
\* and the enclosing For renders the rest of the item and every later item.
C28_BodiesStopSignals == tmpl = BodiesT /\ Done => Out = BodiesExpected(Given)

C28_Witness ==
    /\ tmpl = BodiesT
    /\ Done
    /\ Given = <<StrV(<<"a">>), StrV(<<"b">>)>>
    /\ Out = <<"S", "F", "<", ">", ";", "S", "T", "F", "G", "<", ";">>

\* The text of a tree of Arrays when every item writes "(", then its own
\* items, then ")".
RECURSIVE NestedText(_, _)
NestedText(items, h) ==
    IF items = <<>> THEN <<>>
    ELSE <<"(">> \o (IF is_array(Head(items)) THEN NestedText(h[Head(items).ref].items, h)
                     ELSE <<>>)
         \o <<")">> \o NestedText(Tail(items), h)

\* C29: in a recursive For the loop function returns the text of the nested
\* items as its value and writes nothing itself, so that with the body
\* {{ '(' ~ loop.self(x) }}) the text of the items of x stands between the
\* brackets of x.
C29_LoopCallReturnsText ==
    tmpl = RecursiveT /\ Done => Out = NestedText(for_each(Bindings(2)[n_doc], heap), heap)

\* C30: equality is reflexive and structural: v == v and v in [v] are true
\* for every value v, whatever it holds, and two Arrays are equal exactly
\* when they have the same length and pairwise-equal items.
C30_EqualityReflexive ==
    /\ tmpl = EqualT /\ Done => Out = <<"T", "r", "u", "e", "T", "r", "u", "e">>
    /\ tmpl = PairT /\ Done =>
           Out = to_str(BoolV(Given = ItemsOf(input.pos)), heap)

\* C10: parsing finishes: for every source Parser::tokenize returns, so no
\* parser loop goes round forever.
C10_ParseFinishes == <>(pmode = "done")

====
